---- MODULE Spec2Model ----
(***************************************************************************)
(* A model of the Hive-partitioned storage backend of ml4t.data            *)
(* (src/src/ml4t/data/storage/hive.py): the partition layout, write/read   *)
(* with partition pruning, the incremental-update extension and the        *)
(* per-key metadata documents, sequentially and step by step under         *)
(* concurrent callers.                                                     *)
(***************************************************************************)
EXTENDS Integers, Sequences, FiniteSets, TLC

(***************************************************************************)
(* Bounds of the model.                                                    *)
(***************************************************************************)
\* longest table (number of rows) handed to write / update_combined_file
MaxRows == 2
\* longest update_history the sequential specification lets grow
MaxHist == 2
\* most update_metadata calls in a row on one key
MaxCalls == 102

(***************************************************************************)
(* Timestamps, rows, tables.                                               *)
(***************************************************************************)
\* a datetime, by its calendar fields
DT(y, mo, d, h, mi) == [year |-> y, month |-> mo, day |-> d, hour |-> h, minute |-> mi]

\* the order of datetimes (the comparison polars and Python apply)
TsLess(a, b) ==
    \/ a.year < b.year
    \/ a.year = b.year /\ a.month < b.month
    \/ a.year = b.year /\ a.month = b.month /\ a.day < b.day
    \/ a.year = b.year /\ a.month = b.month /\ a.day = b.day /\ a.hour < b.hour
    \/ a.year = b.year /\ a.month = b.month /\ a.day = b.day /\ a.hour = b.hour
       /\ a.minute < b.minute

TsLeq(a, b) == a = b \/ TsLess(a, b)

\* an absent optional argument or result (Python's None)
None == [none |-> TRUE]

\* the timestamps of the rows the sequential specifications store
Timestamps == { DT(2024, 1, 1, 0, 0), DT(2024, 2, 1, 0, 0) }

\* the payload column of a row
Values == {1, 2}

Row(t, v) == [timestamp |-> t, value |-> v]

Rows == { Row(t, v) : t \in Timestamps, v \in Values }

\* the column names of a table, in order
Columns == <<"timestamp", "value">>

SeqsUpTo(S, n) == UNION { [1..k -> S] : k \in 0..n }

\* the tables (sequences of rows) handed to write and update_combined_file
Tables == SeqsUpTo(Rows, MaxRows)

Range(s) == { s[i] : i \in DOMAIN s }

\* the rows of a table as a multiset: row -> number of occurrences
BagOf(s) == [r \in Range(s) |-> Cardinality({ i \in DOMAIN s : s[i] = r })]

\* s restricted to the indices in idx, order kept
RECURSIVE Pick(_, _, _)
Pick(s, idx, i) ==
    IF i > Len(s) THEN <<>>
    ELSE (IF i \in idx THEN <<s[i]>> ELSE <<>>) \o Pick(s, idx, i + 1)

RECURSIVE Concat(_)
Concat(ss) == IF ss = <<>> THEN <<>> ELSE Head(ss) \o Concat(Tail(ss))

\* all orders in which the elements of a finite set can be listed
Orders(S) ==
    { f \in [1..Cardinality(S) -> S] : \A i, j \in 1..Cardinality(S) : f[i] = f[j] => i = j }

(***************************************************************************)
(* Storage keys and their directory names.                                 *)
(***************************************************************************)
\* a key is a string, modelled as its sequence of characters
Providers == { <<"p">> }
Symbols == { <<"s">> }

\* f"{provider}/{symbol}"
ProviderKey(symbol, provider) == provider \o <<"/">> \o symbol

Keys == { ProviderKey(s, p) : s \in Symbols, p \in Providers }

\* key.replace("/", "_")
Fold(key) == [i \in DOMAIN key |-> IF key[i] = "/" THEN "_" ELSE key[i]]

(***************************************************************************)
(* Partition columns and paths.                                            *)
(***************************************************************************)
Granularities == {"year", "month", "day", "hour"}

_get_partition_columns(granularity) ==
    CASE granularity = "year" -> <<"year">>
      [] granularity = "month" -> <<"year", "month">>
      [] granularity = "day" -> <<"year", "month", "day">>
      [] granularity = "hour" -> <<"year", "month", "day", "hour">>
      [] OTHER -> <<"year", "month">>

\* a slip: the partition columns of every row are taken from the first row
PartitionByFirstRow(df, partition_cols) ==
    [i \in DOMAIN df |->
        [row |-> df[i],
         part |-> [j \in DOMAIN partition_cols |-> df[1].timestamp[partition_cols[j]]]]]

\* one row with its derived partition columns
_add_partition_columns(df, partition_cols) ==
    [i \in DOMAIN df |->
        [row |-> df[i],
         part |-> [j \in DOMAIN partition_cols |-> df[i].timestamp[partition_cols[j]]]]]

\* the directory path below the key directory: one "col=val" component per column
_build_partition_path(partition_cols, values) ==
    [j \in DOMAIN partition_cols |-> [col |-> partition_cols[j], val |-> values[j]]]

\* the {col: int(val)} mapping parsed back from a path
_extract_partition_values(path, partition_cols) ==
    LET hit == { j \in DOMAIN path : path[j].col \in Range(partition_cols) }
    IN  [c \in { path[j].col : j \in hit } |->
            path[CHOOSE j \in hit : path[j].col = c /\ \A k \in hit : path[k].col = c => k <= j].val]

(***************************************************************************)
(* The storage: one HiveStorage instance over its base directory.          *)
(***************************************************************************)
VARIABLES
    config,     \* the StorageConfig of the instance
    dirs,       \* the key directories that exist under base_path
    files,      \* data.parquet files: <<directory, partition path>> -> content
    meta,       \* .metadata/<dir>.json files: directory name -> [state, doc]
    last,       \* the last call that returned: its arguments and its result
    applied,    \* directory name -> last_update of the latest update_metadata applied
    procs,      \* concurrent callers: process -> the call it is in and where
    tmps,       \* temporary files on disk: name -> [path, content]
    locks       \* held .metadata/<dir>.lock files: directory name -> holder

\* the state of the concurrent callers
concVars == <<procs, tmps, locks>>

\* the content of a file that is not a readable parquet file: no bytes yet, or
\* a part of the bytes
ZeroBytes == <<[unreadable |-> "empty"]>>
Torn == <<[unreadable |-> "partial"]>>

\* exists(key)
Exists(ds, key) == Fold(key) \in ds

\* key_path.glob("year=*/.../data.parquet")
Glob(fs, dir, partition_cols) ==
    { p \in DOMAIN fs :
        /\ p[1] = dir
        /\ Len(p[2]) = Len(partition_cols)
        /\ \A j \in DOMAIN partition_cols : p[2][j].col = partition_cols[j] }

\* a slip: the month is compared without looking at the year
PruneMonthAlone(partition_values, start_date, end_date) ==
    ~ \/ start_date # None /\ partition_values["year"] < start_date.year
      \/ end_date # None /\ partition_values["year"] > end_date.year
      \/ "month" \in DOMAIN partition_values /\ start_date # None
         /\ partition_values["month"] < start_date.month
      \/ "month" \in DOMAIN partition_values /\ end_date # None
         /\ partition_values["month"] > end_date.month

\* a slip: the end bound prunes the partition of its own month, day and hour too
PruneEndInclusive(partition_values, start_date, end_date) ==
    LET has(c) == c \in DOMAIN partition_values
        s == start_date
        e == end_date
        hasS == start_date # None
        hasE == end_date # None
        at(b, cs) == \A c \in cs : has(c) /\ partition_values[c] = b[c]
    IN  ~ \/ hasS /\ partition_values["year"] < s.year
          \/ hasE /\ partition_values["year"] > e.year
          \/ has("month") /\ hasS /\ at(s, {"year"}) /\ partition_values["month"] < s.month
          \/ has("month") /\ hasE /\ at(e, {"year"}) /\ partition_values["month"] >= e.month
          \/ has("day") /\ hasS /\ at(s, {"year", "month"}) /\ partition_values["day"] < s.day
          \/ has("day") /\ hasE /\ at(e, {"year", "month"}) /\ partition_values["day"] >= e.day
          \/ has("hour") /\ hasS /\ at(s, {"year", "month", "day"})
             /\ partition_values["hour"] < s.hour
          \/ has("hour") /\ hasE /\ at(e, {"year", "month", "day"})
             /\ partition_values["hour"] >= e.hour

_partition_in_range(partition_values, start_date, end_date) ==
    LET has(c) == c \in DOMAIN partition_values     \* partition_values.get(c) is not None
        year == partition_values["year"]
        month == partition_values["month"]
        day == partition_values["day"]
        hour == partition_values["hour"]
        s == start_date
        e == end_date
        hasS == start_date # None
        hasE == end_date # None
    IN  ~ \/ has("year") /\ hasS /\ year < s.year
          \/ has("year") /\ hasE /\ year > e.year
          \/ has("month") /\ hasS /\ has("year") /\ year = s.year /\ month < s.month
          \/ has("month") /\ hasE /\ has("year") /\ year = e.year /\ month > e.month
          \/ has("day") /\ hasS /\ has("year") /\ year = s.year
             /\ has("month") /\ month = s.month /\ day < s.day
          \/ has("day") /\ hasE /\ has("year") /\ year = e.year
             /\ has("month") /\ month = e.month /\ day > e.day
          \/ has("hour") /\ hasS /\ has("year") /\ year = s.year
             /\ has("month") /\ month = s.month /\ has("day") /\ day = s.day
             /\ hour < s.hour
          \/ has("hour") /\ hasE /\ has("year") /\ year = e.year
             /\ has("month") /\ month = e.month /\ has("day") /\ day = e.day
             /\ hour > e.hour

\* the data files read for a key: all of them, or those the bounds do not prune
_find_partition_paths(fs, dir, partition_cols, start_date, end_date) ==
    IF start_date = None /\ end_date = None
    THEN Glob(fs, dir, partition_cols)
    ELSE { p \in Glob(fs, dir, partition_cols) :
             _partition_in_range(_extract_partition_values(p[2], partition_cols),
                                 start_date, end_date) }

\* the rows one scanned file contributes: timestamp >= start, timestamp < end
ScanFile(rows, start_date, end_date) ==
    Pick(rows,
         { i \in DOMAIN rows :
             /\ start_date # None => TsLeq(start_date, rows[i].timestamp)
             /\ end_date # None => TsLess(rows[i].timestamp, end_date) },
         1)

\* read(key, start, end).collect() with the files taken in the order `order`
ReadIn(fs, order, start_date, end_date) ==
    Concat([i \in DOMAIN order |-> ScanFile(fs[order[i]], start_date, end_date)])

\* the decimal digits of a natural number, as str(val) writes them
RECURSIVE Digits(_)
Digits(n) == IF n < 10 THEN <<n>> ELSE Digits(n \div 10) \o <<n % 10>>

\* the order of two strings of digits (Python's str.__lt__)
StrLess(a, b) ==
    \E k \in 1..Len(b) :
        /\ k <= Len(a) + 1
        /\ \A i \in 1..(k - 1) : a[i] = b[i]
        /\ k = Len(a) + 1 \/ a[k] < b[k]

\* the order of two data files of one key (Path.__lt__, part by part)
PathLess(p, q) ==
    \E k \in DOMAIN p[2] :
        /\ \A i \in 1..(k - 1) : p[2][i].val = q[2][i].val
        /\ StrLess(Digits(p[2][k].val), Digits(q[2][k].val))

\* sorted(key_path.glob(glob_pattern))
RECURSIVE SortedPaths(_)
SortedPaths(paths) ==
    IF paths = {} THEN <<>>
    ELSE LET first == CHOOSE p \in paths : \A q \in paths \ {p} : PathLess(p, q)
         IN  <<first>> \o SortedPaths(paths \ {first})

\* the orders in which read takes the files: sorted when a bound prunes, the
\* file system's order when no bound is given
PathOrders(paths, start_date, end_date) ==
    IF start_date = None /\ end_date = None THEN Orders(paths) ELSE { SortedPaths(paths) }

\* every table read(key, start, end).collect() can give
ReadResults(fs, gran, key, start_date, end_date) ==
    { ReadIn(fs, order, start_date, end_date) :
        order \in PathOrders(_find_partition_paths(fs, Fold(key),
                                                  _get_partition_columns(gran),
                                                  start_date, end_date),
                             start_date, end_date) }

\* the elements of a finite set, listed in some order
RECURSIVE SomeOrder(_)
SomeOrder(S) ==
    IF S = {} THEN <<>>
    ELSE LET x == CHOOSE x \in S : TRUE IN <<x>> \o SomeOrder(S \ {x})

\* the rows of read(key, start, end).collect() as a multiset
ReadBag(fs, gran, key, start_date, end_date) ==
    LET paths == _find_partition_paths(fs, Fold(key), _get_partition_columns(gran),
                                       start_date, end_date)
    IN  BagOf(ReadIn(fs, SomeOrder(paths), start_date, end_date))

(***************************************************************************)
(* write                                                                   *)
(***************************************************************************)
\* df.group_by(partition_cols, maintain_order=True): the groups in the order
\* of their first row, each with its rows in the order of df
GroupBy(dfp) ==
    LET firsts == { i \in DOMAIN dfp : \A j \in 1..(i - 1) : dfp[j].part # dfp[i].part }
        heads == Pick(dfp, firsts, 1)
    IN  [g \in DOMAIN heads |->
            [part |-> heads[g].part,
             rows |-> Pick(dfp, { i \in DOMAIN dfp : dfp[i].part = heads[g].part }, 1)]]

\* partition_df.drop(partition_cols)
Drop(rowsp) == [i \in DOMAIN rowsp |-> rowsp[i].row]

\* the groups of df as write handles them: the target file and its rows
WriteGroups(df, key, gran) ==
    LET cols == _get_partition_columns(gran)
        groups == GroupBy(_add_partition_columns(df, cols))
    IN  [g \in DOMAIN groups |->
            [path |-> <<Fold(key), _build_partition_path(cols, groups[g].part)>>,
             rows |-> Drop(groups[g].rows)]]

\* a slip: the rows are appended to the file the target already holds
AppendWrite(fs, df, target_path) ==
    [p \in DOMAIN fs \cup {target_path} |->
        IF p = target_path THEN (IF p \in DOMAIN fs THEN fs[p] ELSE <<>>) \o df ELSE fs[p]]

\* _atomic_write run to its end: the target holds exactly df
_atomic_write(fs, df, target_path) ==
    [p \in DOMAIN fs \cup {target_path} |-> IF p = target_path THEN df ELSE fs[p]]

\* a slip: the key's directory is emptied before the groups are written
WriteOnlyGroups(fs, groups) ==
    LET targets == { groups[g].path : g \in DOMAIN groups }
        kept == { p \in DOMAIN fs : \A t \in targets : p[1] # t[1] }
    IN  [p \in kept \cup targets |->
            IF p \in targets
            THEN groups[CHOOSE g \in DOMAIN groups : groups[g].path = p].rows
            ELSE fs[p]]

\* the loop of write over the groups
RECURSIVE WriteLoop(_, _)
WriteLoop(fs, groups) ==
    IF groups = <<>> THEN fs
    ELSE WriteLoop(_atomic_write(fs, Head(groups).rows, Head(groups).path), Tail(groups))

\* datetime.isoformat()
Iso(t) == [iso |-> t]

\* {} (a dict without entries)
EmptyDict == [x \in {} |-> x]

\* d[k] = v on a dict
DictSet(d, k, v) == [f \in DOMAIN d \cup {k} |-> IF f = k THEN v ELSE d[f]]

\* a slip: row_count is the number of partitions written
WriteMetadataPartitionCount(df, groups, partition_cols, metadata, now) ==
    [last_updated |-> Iso(now),
     partitions |-> [g \in DOMAIN groups |-> groups[g].path],
     row_count |-> Len(groups),
     schema |-> Columns \o partition_cols,
     custom |-> IF metadata = None THEN EmptyDict ELSE metadata]

\* the document write hands to _update_metadata
WriteMetadata(df, groups, partition_cols, metadata, now) ==
    [last_updated |-> Iso(now),
     partitions |-> [g \in DOMAIN groups |-> groups[g].path],
     row_count |-> Len(_add_partition_columns(df, partition_cols)),
     schema |-> Columns \o partition_cols,
     custom |-> IF metadata = None THEN EmptyDict ELSE metadata]

\* a metadata file whose content is the whole JSON text of doc
MetaFile(doc) == [state |-> "complete", doc |-> doc, writer |-> 0]

\* _write_metadata_file run to its end: the file holds exactly the document
_write_metadata_file(m, name, metadata) ==
    [n \in DOMAIN m \cup {name} |-> IF n = name THEN MetaFile(metadata) ELSE m[n]]

\* _update_metadata run to its end (the lock is taken and released inside)
_update_metadata(m, key, metadata) == _write_metadata_file(m, Fold(key), metadata)

\* get_metadata(key): None, or the parsed document
get_metadata(m, key) == IF Fold(key) \in DOMAIN m THEN m[Fold(key)].doc ELSE None

\* the files and the metadata after write(df, key, metadata)
WriteFiles(fs, groups) == WriteLoop(fs, groups)

WriteMeta(m, cfg, df, groups, key, metadata, now) ==
    IF cfg.metadata_tracking
    THEN _update_metadata(m, key,
                          WriteMetadata(df, groups,
                                        _get_partition_columns(cfg.partition_granularity),
                                        metadata, now))
    ELSE m

\* "timestamp" in df.columns
HasTimestamp(df) == \A i \in DOMAIN df : "timestamp" \in DOMAIN df[i]

\* write(df, key, metadata), at clock reading now
Write(df, key, metadata, now) ==
    /\ HasTimestamp(df)
    /\ \E groups \in { WriteGroups(df, key, config.partition_granularity) } :
        /\ dirs' = dirs \cup {Fold(key)}
        /\ files' = WriteFiles(files, groups)
        /\ meta' = WriteMeta(meta, config, df, groups, key, metadata, now)
        /\ last' = [op |-> "write", key |-> key, data |-> df, written |-> df, ret |-> 0,
                    existed |-> Exists(dirs, key)]
        /\ UNCHANGED <<config, applied, concVars>>

\* a variant that makes the key directory before it looks at the columns
WriteMkdirFirst(df, key, metadata) ==
    /\ ~HasTimestamp(df)
    /\ dirs' = dirs \cup {Fold(key)}
    /\ last' = [op |-> "write_raised", key |-> key, data |-> df, written |-> <<>>,
                ret |-> "ValueError", existed |-> Exists(dirs, key)]
    /\ UNCHANGED <<config, files, meta, applied, concVars>>

\* write(df, key, metadata) of a table without a timestamp column: ValueError
WriteSchemaError(df, key, metadata) ==
    /\ ~HasTimestamp(df)
    /\ last' = [op |-> "write_raised", key |-> key, data |-> df, written |-> <<>>,
                ret |-> "ValueError", existed |-> Exists(dirs, key)]
    /\ UNCHANGED <<config, dirs, files, meta, applied, concVars>>

\* what a partition write that fails before its rename leaves of its temporary
\* file: nothing (it was not made), no bytes, a part of the bytes, all bytes
Leftovers == {"none", "empty", "partial", "whole"}

\* the temporary files after the sequential caller left one for target
LeftBehind(ts, target, rows, left) ==
    IF left = "none" THEN ts
    ELSE DictSet(ts, <<0, target>>,
                 [target |-> target,
                  content |-> CASE left = "empty" -> ZeroBytes
                                [] left = "partial" -> Torn
                                [] OTHER -> rows])

\* a variant whose failing partition write goes into the target file itself
WriteFailsInPlace(df, key, metadata, failed) ==
    /\ HasTimestamp(df)
    /\ \E groups \in { WriteGroups(df, key, config.partition_granularity) } :
          /\ failed \in DOMAIN groups
          /\ dirs' = dirs \cup {Fold(key)}
          /\ files' = _atomic_write(WriteLoop(files, SubSeq(groups, 1, failed - 1)),
                                    Torn, groups[failed].path)
          /\ last' = [op |-> "write_raised", key |-> key, data |-> df, written |-> <<>>,
                      ret |-> "OSError", existed |-> Exists(dirs, key),
                      failed |-> failed]
    /\ UNCHANGED <<config, meta, applied, concVars>>

\* a variant that takes back the partitions it wrote before the failing one
WriteFailsRolledBack(df, key, metadata, failed) ==
    /\ HasTimestamp(df)
    /\ \E groups \in { WriteGroups(df, key, config.partition_granularity) } :
          /\ failed \in DOMAIN groups
          /\ dirs' = dirs \cup {Fold(key)}
          /\ last' = [op |-> "write_raised", key |-> key, data |-> df, written |-> <<>>,
                      ret |-> "OSError", existed |-> Exists(dirs, key),
                      failed |-> failed]
    /\ UNCHANGED <<config, files, meta, applied, concVars>>

\* write(df, key, metadata) whose failed-th partition write raises an I/O
\* error before its rename: the partitions before it are written, no metadata
WriteFails(df, key, metadata, failed) ==
    /\ HasTimestamp(df)
    /\ \E groups \in { WriteGroups(df, key, config.partition_granularity) } :
          /\ failed \in DOMAIN groups
          /\ dirs' = dirs \cup {Fold(key)}
          /\ files' = WriteLoop(files, SubSeq(groups, 1, failed - 1))
          /\ \E left \in Leftovers :
                tmps' = LeftBehind(tmps, groups[failed].path, groups[failed].rows, left)
          /\ last' = [op |-> "write_raised", key |-> key, data |-> df, written |-> <<>>,
                      ret |-> "OSError", existed |-> Exists(dirs, key),
                      failed |-> failed]
    /\ UNCHANGED <<config, meta, applied, procs, locks>>

(***************************************************************************)
(* read                                                                    *)
(***************************************************************************)
\* read(key, start_date, end_date).collect(): the table, or KeyError
Read(key, start_date, end_date) ==
    /\ IF Exists(dirs, key)
       THEN \E result \in ReadResults(files, config.partition_granularity, key,
                                       start_date, end_date) :
                last' = [op |-> "read", key |-> key, data |-> result, written |-> <<>>,
                         ret |-> 0, existed |-> TRUE,
                         start_date |-> start_date, end_date |-> end_date]
       ELSE last' = [op |-> "read", key |-> key, data |-> <<>>, written |-> <<>>,
                     ret |-> "KeyError", existed |-> FALSE,
                     start_date |-> start_date, end_date |-> end_date]
    /\ UNCHANGED <<config, dirs, files, meta, applied, concVars>>

\* exists(key), as a call
ExistsCall(key) ==
    /\ last' = [op |-> "exists", key |-> key, data |-> <<>>, written |-> <<>>,
                ret |-> Exists(dirs, key), existed |-> Exists(dirs, key)]
    /\ UNCHANGED <<config, dirs, files, meta, applied, concVars>>

\* get_metadata(key), as a call
GetMetadata(key) ==
    /\ last' = [op |-> "get_metadata", key |-> key, data |-> <<>>, written |-> <<>>,
                ret |-> get_metadata(meta, key), existed |-> Exists(dirs, key)]
    /\ UNCHANGED <<config, dirs, files, meta, applied, concVars>>

\* a variant that hands every key to read, which raises for a key that does
\* not exist
ReadDataRaises(symbol, provider, start_time, end_time) ==
    /\ \E key \in { ProviderKey(symbol, provider) } :
       \E result \in IF Exists(dirs, key)
                     THEN ReadResults(files, config.partition_granularity, key,
                                      start_time, end_time)
                     ELSE { <<"KeyError">> } :
          last' = [op |-> "read_data", key |-> key, data |-> result, written |-> <<>>,
                   ret |-> 0, existed |-> Exists(dirs, key)]
    /\ UNCHANGED <<config, dirs, files, meta, applied, concVars>>

\* read_data(symbol, provider, start_time, end_time): an empty table for a key
\* that does not exist, else read(key, start_time, end_time).collect()
ReadData(symbol, provider, start_time, end_time) ==
    /\ \E key \in { ProviderKey(symbol, provider) } :
       \E result \in IF Exists(dirs, key)
                     THEN ReadResults(files, config.partition_granularity, key,
                                      start_time, end_time)
                     ELSE { <<>> } :
          last' = [op |-> "read_data", key |-> key, data |-> result, written |-> <<>>,
                   ret |-> 0, existed |-> Exists(dirs, key)]
    /\ UNCHANGED <<config, dirs, files, meta, applied, concVars>>

\* a slip: the smallest timestamp is taken
MinTimestamp(df) ==
    df[CHOOSE i \in DOMAIN df :
          \A j \in DOMAIN df : TsLeq(df[i].timestamp, df[j].timestamp)].timestamp

\* df["timestamp"].max()
MaxTimestamp(df) ==
    df[CHOOSE i \in DOMAIN df :
          \A j \in DOMAIN df : TsLeq(df[j].timestamp, df[i].timestamp)].timestamp

\* get_latest_timestamp(symbol, provider): None for a key that does not exist
\* or holds no rows, else the largest timestamp read
GetLatestTimestamp(symbol, provider) ==
    /\ \E key \in { ProviderKey(symbol, provider) } :
       \E df \in IF Exists(dirs, key)
                 THEN ReadResults(files, config.partition_granularity, key, None, None)
                 ELSE { <<>> } :
          last' = [op |-> "get_latest_timestamp", key |-> key, data |-> <<>>,
                   written |-> <<>>,
                   ret |-> IF ~Exists(dirs, key) \/ df = <<>> THEN None
                           ELSE MaxTimestamp(df),
                   existed |-> Exists(dirs, key)]
    /\ UNCHANGED <<config, dirs, files, meta, applied, concVars>>

(***************************************************************************)
(* update_combined_file                                                    *)
(***************************************************************************)
\* a slip: keep="first"
UniqueKeepFirst(t) ==
    Pick(t, { i \in DOMAIN t : \A j \in DOMAIN t : j < i => t[j].timestamp # t[i].timestamp }, 1)

\* combined.unique(subset=["timestamp"], keep="last")
UniqueKeepLast(t) ==
    Pick(t, { i \in DOMAIN t : \A j \in DOMAIN t : j > i => t[j].timestamp # t[i].timestamp }, 1)

\* .sort("timestamp"): ascending, rows of equal timestamp in their order
RECURSIVE SortByTimestamp(_)
SortByTimestamp(t) ==
    IF t = <<>> THEN <<>>
    ELSE LET i == CHOOSE i \in DOMAIN t :
                    /\ \A j \in DOMAIN t : TsLeq(t[i].timestamp, t[j].timestamp)
                    /\ \A j \in 1..(i - 1) : t[j].timestamp # t[i].timestamp
         IN  <<t[i]>> \o SortByTimestamp(Pick(t, DOMAIN t \ {i}, 1))

\* a slip: the concatenation is written back without deduplication
CombineNoDedup(existing_df, data) == SortByTimestamp(existing_df \o data)

\* the table update_combined_file hands to write, from what it read
Combine(existing_df, data) == SortByTimestamp(UniqueKeepLast(existing_df \o data))

\* the tables read(key).collect() can give update_combined_file (none stored: the
\* empty table stands for "combined = data")
ExistingTables(key) ==
    IF Exists(dirs, key)
    THEN ReadResults(files, config.partition_granularity, key, None, None)
    ELSE { <<>> }

\* update_combined_file(data, symbol, provider), its write at clock reading now
UpdateCombinedFile(data, symbol, provider, now) ==
    \E key \in { ProviderKey(symbol, provider) } :
    \E existing_df \in ExistingTables(key) :
    \E combined \in { Combine(existing_df, data) } :
    \E groups \in { WriteGroups(combined, key, config.partition_granularity) } :
        /\ dirs' = dirs \cup {Fold(key)}
        /\ files' = WriteFiles(files, groups)
        /\ meta' = WriteMeta(meta, config, combined, groups, key, None, now)
        /\ last' = [op |-> "update_combined_file", key |-> key, data |-> data,
                    written |-> combined,
                    ret |-> Len(combined) - Len(existing_df \o data),
                    existed |-> Exists(dirs, key)]
        /\ UNCHANGED <<config, applied, concVars>>

(***************************************************************************)
(* save_chunk                                                              *)
(***************************************************************************)
\* the directory of the chunks, under base_path
DotChunks == <<".", "c", "h", "u", "n", "k", "s">>

\* base_path / ".chunks" / provider / symbol / "<start>_<end>.parquet": path
\* components that are plain names, none of the form "col=val"
chunk_path(symbol, provider, start_time, end_time) ==
    <<DotChunks,
      <<[col |-> "", val |-> provider], [col |-> "", val |-> symbol],
        [col |-> "", val |-> [start |-> start_time, end |-> end_time]]>>>>

\* save_chunk(data, symbol, provider, start_time, end_time)
SaveChunk(data, symbol, provider, start_time, end_time) ==
    /\ dirs' = dirs \cup {DotChunks}
    /\ files' = DictSet(files, chunk_path(symbol, provider, start_time, end_time), data)
    /\ last' = [op |-> "save_chunk", key |-> ProviderKey(symbol, provider), data |-> data,
                written |-> <<>>, ret |-> 0,
                existed |-> Exists(dirs, ProviderKey(symbol, provider))]
    /\ UNCHANGED <<config, meta, applied, concVars>>

(***************************************************************************)
(* update_metadata                                                         *)
(***************************************************************************)
\* "Keep only last 100 updates in history"
HistoryCap == 100

\* a variant that keeps the oldest 100 entries
CapOldest(history) ==
    IF Len(history) > HistoryCap THEN SubSeq(history, 1, HistoryCap) ELSE history

\* history[-100:] when it is longer than 100
CapHistory(history) ==
    IF Len(history) > HistoryCap
    THEN SubSeq(history, Len(history) - HistoryCap + 1, Len(history))
    ELSE history

\* the document update_metadata writes, from the one it loaded (None: no file)
UpdatedDoc(loaded, symbol, provider, last_update, records_added, chunk_file) ==
    LET m0 == IF loaded # None THEN loaded
              ELSE [symbol |-> symbol, provider |-> provider,
                    first_update |-> Iso(last_update), update_history |-> <<>>]
        m1 == DictSet(m0, "last_update", Iso(last_update))
        m2 == IF "update_history" \notin DOMAIN m1
              THEN DictSet(m1, "update_history", <<>>) ELSE m1
        m3 == DictSet(m2, "update_history",
                      Append(m2["update_history"],
                             [timestamp |-> Iso(last_update),
                              records_added |-> records_added,
                              chunk_file |-> chunk_file]))
    IN  DictSet(m3, "update_history", CapHistory(m3["update_history"]))

\* the length of the key's stored update_history (0: none)
HistoryLen(m, key) ==
    IF Fold(key) \in DOMAIN m /\ "update_history" \in DOMAIN m[Fold(key)].doc
    THEN Len(m[Fold(key)].doc["update_history"]) ELSE 0

\* update_metadata(symbol, provider, last_update, records_added, chunk_file)
UpdateMetadata(symbol, provider, last_update, records_added, chunk_file) ==
    LET key == ProviderKey(symbol, provider)
        doc == UpdatedDoc(get_metadata(meta, key), symbol, provider, last_update,
                          records_added, chunk_file)
    IN  /\ meta' = _update_metadata(meta, key, doc)
        /\ last' = [op |-> "update_metadata", key |-> key, data |-> <<>>, written |-> <<>>,
                    ret |-> 0, existed |-> Exists(dirs, key)]
        /\ applied' = DictSet(applied, Fold(key), last_update)
        /\ UNCHANGED <<config, dirs, files, concVars>>

(***************************************************************************)
(* delete                                                                  *)
(***************************************************************************)
\* shutil.rmtree(key_path)
RmTree(fs, dir) == [p \in { q \in DOMAIN fs : q[1] # dir } |-> fs[p]]

\* metadata_file.unlink() when it exists
Unlink(m, name) == [n \in DOMAIN m \ {name} |-> m[n]]

\* delete(key)
Delete(key) ==
    /\ IF Exists(dirs, key)
       THEN /\ dirs' = dirs \ {Fold(key)}
            /\ files' = RmTree(files, Fold(key))
            /\ meta' = Unlink(meta, Fold(key))
            /\ applied' = Unlink(applied, Fold(key))
       ELSE UNCHANGED <<dirs, files, meta, applied>>
    /\ last' = [op |-> "delete", key |-> key, data |-> <<>>, written |-> <<>>,
                ret |-> Exists(dirs, key), existed |-> Exists(dirs, key)]
    /\ UNCHANGED <<config, concVars>>

(***************************************************************************)
(* list_keys                                                               *)
(***************************************************************************)
\* the directory of the metadata files, made by __init__
DotMetadata == <<".", "m", "e", "t", "a", "d", "a", "t", "a">>

\* base_path.iterdir(), the entries that are directories
IterDir(ds) == ds \cup {DotMetadata}

\* a variant that writes "-" for "_"
UnfoldDash(name) == [i \in DOMAIN name |-> IF name[i] = "_" THEN "-" ELSE name[i]]

\* path.name.replace("_", "/")
Unfold(name) == [i \in DOMAIN name |-> IF name[i] = "_" THEN "/" ELSE name[i]]

\* the code point of a character of a key
Ord(ch) ==
    CASE ch = "-" -> 45 [] ch = "." -> 46 [] ch = "/" -> 47 [] ch = "_" -> 95
      [] ch = "a" -> 97 [] ch = "b" -> 98 [] ch = "c" -> 99 [] ch = "p" -> 112
      [] ch = "s" -> 115 [] OTHER -> 120

\* the order of two keys (Python's str.__lt__)
KeyLess(a, b) == StrLess([i \in DOMAIN a |-> Ord(a[i])], [i \in DOMAIN b |-> Ord(b[i])])

\* sorted(keys)
RECURSIVE SortedKeys(_)
SortedKeys(keys) ==
    IF keys = <<>> THEN <<>>
    ELSE LET least == CHOOSE i \in DOMAIN keys :
                        \A j \in DOMAIN keys :
                            ~KeyLess(keys[j], keys[i]) /\ (keys[j] = keys[i] => i <= j)
         IN  <<keys[least]>> \o SortedKeys(Pick(keys, DOMAIN keys \ {least}, 1))

\* list_keys(): one key per listed directory whose name does not start with "."
list_keys(ds) ==
    LET listed == SomeOrder({ d \in IterDir(ds) : d = <<>> \/ d[1] # "." })
    IN  SortedKeys([i \in DOMAIN listed |-> Unfold(listed[i])])

(***************************************************************************)
(* The sequential specification: calls on one instance, one after another. *)
(***************************************************************************)
\* the readings of datetime.now() and the last_update arguments
NowTimes == { DT(2024, 3, 1, 0, 0) }
UpdateTimes == { DT(2024, 3, 1, 0, 0), DT(2024, 3, 2, 0, 0) }

\* the metadata arguments of write
Customs == { None, [source |-> "x"] }

NoFiles == [p \in {} |-> <<>>]

\* the processes that call the instance concurrently
\* the concurrent callers: two that write and one that reads
Writers == {1, 2}
Readers == {3}
Procs == Writers \cup Readers

Idle == [pc |-> "idle", op |-> "none"]

\* the state after construction: an empty base directory
Empty ==
    /\ dirs = {}
    /\ files = NoFiles
    /\ meta = NoFiles
    /\ applied = NoFiles
    /\ last = [op |-> "init", key |-> <<>>, data |-> <<>>, written |-> <<>>, ret |-> 0,
               existed |-> FALSE]
    /\ procs = [p \in Procs |-> Idle]
    /\ tmps = NoFiles
    /\ locks = NoFiles

Init ==
    /\ config \in [partition_granularity : Granularities,
                    metadata_tracking : {TRUE}, enable_locking : {TRUE}]
    /\ Empty

\* calls that store and remove data
Next ==
    \/ \E df \in Tables, key \in Keys, now \in NowTimes : Write(df, key, None, now)
    \/ \E data \in Tables, symbol \in Symbols, provider \in Providers, now \in NowTimes :
          UpdateCombinedFile(data, symbol, provider, now)
    \/ \E key \in Keys : Delete(key)

vars == <<config, dirs, files, meta, last, applied, procs, tmps, locks>>

Spec == Init /\ [][Next]_vars

\* the tables of the calls that are followed through the metadata
MetaTables == { <<>>, <<Row(DT(2024, 1, 1, 0, 0), 1)>> }

\* calls that write the metadata document of a key
MetaNext ==
    \/ \E df \in MetaTables, key \in Keys, metadata \in Customs, now \in NowTimes :
          Write(df, key, metadata, now)
    \/ \E data \in MetaTables, symbol \in Symbols, provider \in Providers,
          now \in NowTimes :
          UpdateCombinedFile(data, symbol, provider, now)
    \/ \E symbol \in Symbols, provider \in Providers, last_update \in UpdateTimes :
          /\ HistoryLen(meta, ProviderKey(symbol, provider)) < MaxHist
          /\ UpdateMetadata(symbol, provider, last_update, 1, "chunk")
    \/ \E key \in Keys : Delete(key)

SpecMeta == Init /\ [][MetaNext]_vars

(***************************************************************************)
(* A long run of update_metadata calls on one key, past the history cap.   *)
(***************************************************************************)
\* the last_update of the k-th call: one minute after that of the call before
CallTime(k) == DT(2024, 3, 1, k \div 60, k % 60)

\* the number of the call whose last_update is t
CallNo(t) == t.hour * 60 + t.minute

\* the number of update_metadata calls made on a key so far
CallsMade(key) == IF Fold(key) \in DOMAIN applied THEN CallNo(applied[Fold(key)]) ELSE 0

\* the k-th call reports k records
HistNext ==
    \E symbol \in Symbols, provider \in Providers :
        \E k \in { CallsMade(ProviderKey(symbol, provider)) + 1 } :
            /\ k <= MaxCalls
            /\ UpdateMetadata(symbol, provider, CallTime(k), k, "chunk")

SpecHist == Init /\ [][HistNext]_vars

(***************************************************************************)
(* Keys with "/" and "_" in them, and the directories they fold to.        *)
(***************************************************************************)
\* the keys handed to write and delete
AnyKeys == { <<"a", "/", "b">>, <<"a", "_", "b">>, <<"a", "_", "b", "/", "c">> }

\* the provider and symbol arguments: they make the key a/b
KeyProviders == { <<"a">> }
KeySymbols == { <<"b">> }

KeyTables == { <<>>, <<Row(DT(2024, 1, 1, 0, 0), 1)>>, <<Row(DT(2024, 2, 1, 0, 0), 2)>> }

KeysNext ==
    \/ \E df \in KeyTables, key \in AnyKeys, now \in NowTimes : Write(df, key, None, now)
    \/ \E data \in KeyTables, symbol \in KeySymbols, provider \in KeyProviders,
          now \in NowTimes :
          UpdateCombinedFile(data, symbol, provider, now)
    \/ \E symbol \in KeySymbols, provider \in KeyProviders, last_update \in UpdateTimes :
          /\ HistoryLen(meta, ProviderKey(symbol, provider)) < MaxHist
          /\ UpdateMetadata(symbol, provider, last_update, 1, "chunk")
    \/ \E key \in AnyKeys : Delete(key)

SpecKeys == Init /\ [][KeysNext]_vars

(***************************************************************************)
(* Writes that raise: a table without a timestamp column, and an I/O error *)
(* in a partition write.                                                   *)
(***************************************************************************)
\* the keys: p/s and one more
ErrKeys == Keys \cup { <<"q">> }

\* tables of one and of two partitions
ErrTables ==
    { <<Row(DT(2024, 1, 1, 0, 0), 1)>>,
      <<Row(DT(2024, 1, 1, 0, 0), 2), Row(DT(2024, 2, 1, 0, 0), 2)>> }

\* tables without a timestamp column
NoTimestampTables == { <<[value |-> 1]>> }

ErrNext ==
    \/ \E df \in ErrTables, key \in ErrKeys, now \in NowTimes : Write(df, key, None, now)
    \/ \E df \in NoTimestampTables, key \in ErrKeys : WriteSchemaError(df, key, None)
    \/ \E df \in ErrTables, key \in Keys, failed \in 1..MaxRows :
          WriteFails(df, key, None, failed)
    \/ \E key \in ErrKeys : Delete(key)

SpecErr == Init /\ [][ErrNext]_vars

(***************************************************************************)
(* Calls on a key that is absent or populated, with the calls that only    *)
(* look at it.                                                             *)
(***************************************************************************)
AbsentNext ==
    \/ \E df \in MetaTables, key \in Keys, now \in NowTimes : Write(df, key, None, now)
    \/ \E data \in MetaTables, symbol \in Symbols, provider \in Providers,
          now \in NowTimes :
          UpdateCombinedFile(data, symbol, provider, now)
    \/ \E symbol \in Symbols, provider \in Providers, last_update \in UpdateTimes :
          /\ HistoryLen(meta, ProviderKey(symbol, provider)) < MaxHist
          /\ UpdateMetadata(symbol, provider, last_update, 1, "chunk")
    \/ \E key \in Keys : Delete(key)
    \/ \E key \in Keys : Read(key, None, None)
    \/ \E symbol \in Symbols, provider \in Providers : ReadData(symbol, provider, None, None)
    \/ \E symbol \in Symbols, provider \in Providers : GetLatestTimestamp(symbol, provider)
    \/ \E key \in Keys : GetMetadata(key)
    \/ \E key \in Keys : ExistsCall(key)

SpecAbsent == Init /\ [][AbsentNext]_vars

(***************************************************************************)
(* Chunks saved next to the stored datasets.                               *)
(***************************************************************************)
\* the keys looked at: p/s, and the key whose directory is that of the chunks
ChunkKeys == Keys \cup {DotChunks}

ChunkNext ==
    \/ \E data \in MetaTables, symbol \in Symbols, provider \in Providers,
          start_time \in UpdateTimes, end_time \in UpdateTimes :
          SaveChunk(data, symbol, provider, start_time, end_time)
    \/ \E df \in MetaTables, key \in Keys, now \in NowTimes : Write(df, key, None, now)
    \/ \E data \in MetaTables, symbol \in Symbols, provider \in Providers,
          now \in NowTimes :
          UpdateCombinedFile(data, symbol, provider, now)
    \/ \E key \in Keys : Delete(key)

SpecChunk == Init /\ [][ChunkNext]_vars

(***************************************************************************)
(* Writes and incremental updates of tables with several rows in one time  *)
(* bucket and rows in several buckets.                                     *)
(***************************************************************************)
\* 1-minute bars of three days, two of them on the first day, not in time order
ThreeDays ==
    << Row(DT(2024, 1, 1, 0, 0), 1), Row(DT(2024, 1, 2, 0, 0), 1),
       Row(DT(2024, 1, 1, 1, 30), 2), Row(DT(2024, 1, 3, 0, 0), 1) >>

LayoutTables ==
    { <<>>, <<Row(DT(2024, 1, 1, 0, 0), 2)>>, <<Row(DT(2025, 2, 1, 0, 0), 1)>>,
      <<Row(DT(2024, 1, 1, 0, 30), 1), Row(DT(2024, 1, 1, 0, 0), 1)>>, ThreeDays }

LayoutNext ==
    \/ \E df \in LayoutTables, key \in Keys, metadata \in Customs, now \in NowTimes :
          Write(df, key, metadata, now)
    \/ \E data \in LayoutTables, symbol \in Symbols, provider \in Providers,
          now \in NowTimes :
          UpdateCombinedFile(data, symbol, provider, now)
    \/ \E key \in Keys : Delete(key)

SpecLayout == Init /\ [][LayoutNext]_vars

(***************************************************************************)
(* Incremental updates and writes of one key, with get_latest_timestamp    *)
(* called in between.                                                      *)
(***************************************************************************)
\* chunks of one row, of two rows not in time order, and without rows
LatestTables ==
    KeyTables \cup { <<Row(DT(2024, 2, 1, 0, 0), 1), Row(DT(2024, 1, 1, 0, 0), 1)>> }

LatestNext ==
    \/ \E data \in LatestTables, symbol \in Symbols, provider \in Providers,
          now \in NowTimes :
          UpdateCombinedFile(data, symbol, provider, now)
    \/ \E df \in LatestTables, key \in Keys, now \in NowTimes : Write(df, key, None, now)
    \/ \E key \in Keys : Delete(key)
    \/ \E symbol \in Symbols, provider \in Providers : GetLatestTimestamp(symbol, provider)

SpecLatest == Init /\ [][LatestNext]_vars

(***************************************************************************)
(* Concurrent callers: each call advances file operation by file           *)
(* operation, and the calls of different processes interleave.             *)
(***************************************************************************)
\* the processes that are inside a call
Running(p) == procs[p].pc \notin {"idle", "done", "raised", "crashed"}

Goto(p, rec) == [procs EXCEPT ![p] = rec]

At(p, pc) == [procs[p] EXCEPT !.pc = pc]

\* the call of process p ends with an exception
Raise(p, error) == [pc |-> "raised", error |-> error, call |-> procs[p]]

\* the call process p is in, or was in when it raised
CallOf(p) == IF procs[p].pc = "raised" THEN procs[p].call ELSE procs[p]

\* a variant that gives the temporary file a name made from the target alone
TmpShared(p, target) == <<0, target>>

\* the name of the temporary file process p creates for target
TmpName(p, target) == <<p, target>>

\* the step after the data files of write: the metadata update, if tracked
AfterData(cfg) ==
    IF ~cfg.metadata_tracking THEN "done"
    ELSE IF cfg.enable_locking THEN "m_lock" ELSE "m_temp"

\* write, up to the loop: the key directory is made and df is grouped
W_Begin(p, df, key, metadata, now) ==
    /\ procs[p].pc = "idle"
    /\ HasTimestamp(df)
    /\ dirs' = dirs \cup {Fold(key)}
    /\ procs' = Goto(p, [pc |-> "loop", op |-> "write", key |-> key, df |-> df,
                         todo |-> WriteGroups(df, key, config.partition_granularity),
                         metadata |-> metadata, now |-> now])
    /\ UNCHANGED <<config, files, meta, last, applied, tmps, locks>>

\* _atomic_write: NamedTemporaryFile(dir=target_path.parent, delete=False)
W_MkTemp(p) ==
    /\ procs[p].pc = "loop"
    /\ procs[p].todo # <<>>
    /\ tmps' = DictSet(tmps, TmpName(p, Head(procs[p].todo).path),
                       [target |-> Head(procs[p].todo).path, content |-> ZeroBytes])
    /\ procs' = Goto(p, At(p, "write_parquet"))
    /\ UNCHANGED <<config, dirs, files, meta, last, applied, locks>>

\* _atomic_write: df.write_parquet(tmp_path), part of the bytes written
W_ParquetPart(p) ==
    /\ procs[p].pc = "write_parquet"
    /\ tmps' = DictSet(tmps, TmpName(p, Head(procs[p].todo).path),
                       [target |-> Head(procs[p].todo).path, content |-> Torn])
    /\ procs' = Goto(p, At(p, "write_parquet_end"))
    /\ UNCHANGED <<config, dirs, files, meta, last, applied, locks>>

\* a variant that goes on to the rename while the file is still partly written
RenameUnwritten(p) ==
    /\ procs[p].pc = "write_parquet_end"
    /\ procs' = Goto(p, At(p, "rename"))
    /\ UNCHANGED <<config, dirs, files, meta, last, applied, tmps, locks>>

\* _atomic_write: df.write_parquet(tmp_path) returns, the file written and closed
W_ParquetEnd(p) ==
    /\ procs[p].pc = "write_parquet_end"
    /\ tmps' = DictSet(tmps, TmpName(p, Head(procs[p].todo).path),
                       [target |-> Head(procs[p].todo).path,
                        content |-> Head(procs[p].todo).rows])
    /\ procs' = Goto(p, At(p, "rename"))
    /\ UNCHANGED <<config, dirs, files, meta, last, applied, locks>>

\* _atomic_write: tmp_path.replace(target_path); the loop goes to the next group
W_Rename(p) ==
    /\ procs[p].pc = "rename"
    /\ LET name == TmpName(p, Head(procs[p].todo).path)
       IN  /\ files' = DictSet(files, tmps[name].target, tmps[name].content)
           /\ tmps' = Unlink(tmps, name)
    /\ procs' = Goto(p, [procs[p] EXCEPT !.pc = "loop", !.todo = Tail(procs[p].todo)])
    /\ UNCHANGED <<config, dirs, meta, last, applied, locks>>

\* a variant that goes to the metadata update while partitions are still to write
W_MetaEarly(p) ==
    /\ procs[p].pc = "loop"
    /\ procs' = Goto(p, [pc |-> AfterData(config), op |-> "write", key |-> procs[p].key,
                         df |-> procs[p].df,
                         doc |-> WriteMetadata(procs[p].df,
                                    WriteGroups(procs[p].df, procs[p].key,
                                                config.partition_granularity),
                                    _get_partition_columns(config.partition_granularity),
                                    procs[p].metadata, procs[p].now)])
    /\ UNCHANGED <<config, dirs, files, meta, last, applied, tmps, locks>>

\* write, after the loop: the metadata document is built
W_Meta(p) ==
    /\ procs[p].pc = "loop"
    /\ procs[p].todo = <<>>
    /\ procs' = Goto(p, [pc |-> AfterData(config), op |-> "write", key |-> procs[p].key,
                         df |-> procs[p].df,
                         doc |-> WriteMetadata(procs[p].df,
                                    WriteGroups(procs[p].df, procs[p].key,
                                                config.partition_granularity),
                                    _get_partition_columns(config.partition_granularity),
                                    procs[p].metadata, procs[p].now)])
    /\ UNCHANGED <<config, dirs, files, meta, last, applied, tmps, locks>>

\* _update_metadata: `with lock`, the lock is free and taken
M_Lock(p) ==
    /\ procs[p].pc = "m_lock"
    /\ Fold(procs[p].key) \notin DOMAIN locks
    /\ locks' = DictSet(locks, Fold(procs[p].key), p)
    /\ procs' = Goto(p, At(p, "m_temp"))
    /\ UNCHANGED <<config, dirs, files, meta, last, applied, tmps>>

\* a variant that removes the data files of the key when the lock is not acquired
M_TimeoutUndo(p) ==
    /\ procs[p].pc = "m_lock"
    /\ Fold(procs[p].key) \in DOMAIN locks
    /\ files' = RmTree(files, Fold(procs[p].key))
    /\ procs' = Goto(p, Raise(p, "Timeout"))
    /\ UNCHANGED <<config, dirs, meta, last, applied, tmps, locks>>

\* a variant that waits for the lock without a timeout
M_WaitOn(p) ==
    /\ procs[p].pc = "m_lock"
    /\ Fold(procs[p].key) \in DOMAIN locks
    /\ UNCHANGED vars

\* _update_metadata: the lock stays held by another caller for the timeout
M_Timeout(p) ==
    /\ procs[p].pc = "m_lock"
    /\ Fold(procs[p].key) \in DOMAIN locks
    /\ procs' = Goto(p, Raise(p, "Timeout"))
    /\ UNCHANGED <<config, dirs, files, meta, last, applied, tmps, locks>>

\* the metadata file of a key, as a path
MetaPath(key) == <<".metadata", Fold(key)>>

\* _write_metadata_file: NamedTemporaryFile(dir=path.parent, mode="w", delete=False)
M_Temp(p) ==
    /\ procs[p].pc = "m_temp"
    /\ tmps' = DictSet(tmps, TmpName(p, MetaPath(procs[p].key)),
                       [target |-> MetaPath(procs[p].key), state |-> "empty"])
    /\ procs' = Goto(p, At(p, "m_dump"))
    /\ UNCHANGED <<config, dirs, files, meta, last, applied, locks>>

\* what a buffered text file holds on disk before it is flushed: nothing when
\* the text fits the buffer, a part of the text when it does not
Unflushed == {"empty", "truncated"}

\* _write_metadata_file: json.dump(metadata, tmp_file) into the file's buffer
M_Dump(p) ==
    /\ procs[p].pc = "m_dump"
    /\ \E onDisk \in Unflushed :
          tmps' = DictSet(tmps, TmpName(p, MetaPath(procs[p].key)),
                          [target |-> MetaPath(procs[p].key), state |-> onDisk])
    /\ procs' = Goto(p, At(p, "m_rename"))
    /\ UNCHANGED <<config, dirs, files, meta, last, applied, locks>>

\* _write_metadata_file: tmp_path.replace(path), inside the `with` of the file
M_Rename(p) ==
    /\ procs[p].pc = "m_rename"
    /\ LET name == TmpName(p, MetaPath(procs[p].key))
       IN  /\ meta' = DictSet(meta, Fold(procs[p].key),
                              [state |-> tmps[name].state, doc |-> procs[p].doc,
                               writer |-> p])
           /\ tmps' = Unlink(tmps, name)
    /\ procs' = Goto(p, At(p, "m_close"))
    /\ UNCHANGED <<config, dirs, files, last, applied, locks>>

\* the metadata files after process p closes (flushes) the file it wrote
Flushed(m, p) ==
    [n \in DOMAIN m |-> IF m[n].writer = p THEN MetaFile(m[n].doc) ELSE m[n]]

\* _write_metadata_file: the `with` block ends, the file is flushed and closed
M_Close(p) ==
    /\ procs[p].pc = "m_close"
    /\ meta' = Flushed(meta, p)
    /\ procs' = Goto(p, At(p, IF config.enable_locking THEN "m_unlock" ELSE "done"))
    /\ UNCHANGED <<config, dirs, files, last, applied, tmps, locks>>

\* the locks without those process p holds
Released(l, p) == [n \in { x \in DOMAIN l : l[x] # p } |-> l[n]]

\* _update_metadata: the `with lock` block ends
M_Unlock(p) ==
    /\ procs[p].pc = "m_unlock"
    /\ locks' = Released(locks, p)
    /\ procs' = Goto(p, At(p, "done"))
    /\ UNCHANGED <<config, dirs, files, meta, last, applied, tmps>>

\* the process is killed inside a call: its lock goes with it, its files stay
Crash(p) ==
    /\ Running(p)
    /\ locks' = Released(locks, p)
    /\ procs' = Goto(p, At(p, "crashed"))
    /\ UNCHANGED <<config, dirs, files, meta, last, applied, tmps>>

\* what open() and json.load() make of a metadata file
Loaded(m, name) ==
    IF name \notin DOMAIN m THEN [error |-> "FileNotFoundError"]
    ELSE IF m[name].state # "complete" THEN [error |-> "JSONDecodeError"]
    ELSE [doc |-> m[name].doc]

\* update_metadata: metadata_file.exists()
U_Begin(p, symbol, provider, last_update, records_added, chunk_file) ==
    /\ procs[p].pc = "idle"
    /\ procs' = Goto(p, [pc |-> "u_load", op |-> "update_metadata",
                         key |-> ProviderKey(symbol, provider),
                         symbol |-> symbol, provider |-> provider,
                         last_update |-> last_update, records_added |-> records_added,
                         chunk_file |-> chunk_file,
                         found |-> Fold(ProviderKey(symbol, provider)) \in DOMAIN meta])
    /\ UNCHANGED <<config, dirs, files, meta, last, applied, tmps, locks>>

\* update_metadata: the existing document is loaded, or a new one made, and the
\* entry of this call appended; no lock is held here
U_Load(p) ==
    /\ procs[p].pc = "u_load"
    /\ LET got == IF procs[p].found THEN Loaded(meta, Fold(procs[p].key))
                  ELSE [doc |-> None]
       IN  procs' = Goto(p,
               IF "error" \in DOMAIN got
               THEN Raise(p, got.error)
               ELSE [pc |-> IF config.enable_locking THEN "m_lock" ELSE "m_temp",
                     op |-> "update_metadata", key |-> procs[p].key,
                     last_update |-> procs[p].last_update,
                     doc |-> UpdatedDoc(got.doc, procs[p].symbol, procs[p].provider,
                                        procs[p].last_update, procs[p].records_added,
                                        procs[p].chunk_file)])
    /\ UNCHANGED <<config, dirs, files, meta, last, applied, tmps, locks>>

\* get_metadata: metadata_file.exists()
G_Begin(p, key) ==
    /\ procs[p].pc = "idle"
    /\ procs' = Goto(p, IF Fold(key) \in DOMAIN meta
                        THEN [pc |-> "g_load", op |-> "get_metadata", key |-> key]
                        ELSE [pc |-> "done", op |-> "get_metadata", key |-> key,
                              ret |-> None])
    /\ UNCHANGED <<config, dirs, files, meta, last, applied, tmps, locks>>

\* get_metadata: open(metadata_file) and json.load(f)
G_Load(p) ==
    /\ procs[p].pc = "g_load"
    /\ LET got == Loaded(meta, Fold(procs[p].key))
       IN  procs' = Goto(p,
               IF "error" \in DOMAIN got
               THEN Raise(p, got.error)
               ELSE [pc |-> "done", op |-> "get_metadata", key |-> procs[p].key,
                     ret |-> got.doc])
    /\ UNCHANGED <<config, dirs, files, meta, last, applied, tmps, locks>>

\* read without bounds: the key directory is looked up and its data files listed
R_Begin(p, key) ==
    /\ procs[p].pc = "idle"
    /\ procs' = Goto(p,
           IF ~Exists(dirs, key)
           THEN [pc |-> "raised", error |-> "KeyError", call |-> [op |-> "read", key |-> key]]
           ELSE [pc |-> "scan", op |-> "read", key |-> key, acc |-> <<>>,
                 todo |-> SomeOrder(_find_partition_paths(files, Fold(key),
                              _get_partition_columns(config.partition_granularity),
                              None, None))])
    /\ UNCHANGED <<config, dirs, files, meta, last, applied, tmps, locks>>

\* read: the next listed data file is scanned
R_Scan(p) ==
    /\ procs[p].pc = "scan"
    /\ procs[p].todo # <<>>
    /\ LET path == Head(procs[p].todo)
       IN  procs' = Goto(p,
               IF path \notin DOMAIN files
               THEN Raise(p, "FileNotFoundError")
               ELSE IF files[path] \in {ZeroBytes, Torn}
               THEN Raise(p, "ComputeError")
               ELSE [procs[p] EXCEPT !.todo = Tail(procs[p].todo),
                                     !.acc = procs[p].acc \o <<[path |-> path,
                                                                rows |-> files[path]]>>])
    /\ UNCHANGED <<config, dirs, files, meta, last, applied, tmps, locks>>

\* read: every listed file is scanned, the frame is returned
R_End(p) ==
    /\ procs[p].pc = "scan"
    /\ procs[p].todo = <<>>
    /\ procs' = Goto(p, [pc |-> "done", op |-> "read", key |-> procs[p].key,
                         ret |-> procs[p].acc])
    /\ UNCHANGED <<config, dirs, files, meta, last, applied, tmps, locks>>

\* update_combined_file: exists(key)
C_Begin(p, data, symbol, provider) ==
    /\ procs[p].pc = "idle"
    /\ procs' = Goto(p, [pc |-> "c_read", op |-> "update_combined_file",
                         key |-> ProviderKey(symbol, provider), data |-> data,
                         existed |-> Exists(dirs, ProviderKey(symbol, provider))])
    /\ UNCHANGED <<config, dirs, files, meta, last, applied, tmps, locks>>

\* update_combined_file: read(key).collect() when the key existed, then the
\* concatenation, the deduplication and the sort; no lock is held
C_Read(p) ==
    /\ procs[p].pc = "c_read"
    /\ IF procs[p].existed /\ ~Exists(dirs, procs[p].key)
       THEN procs' = Goto(p, Raise(p, "KeyError"))
       ELSE \E existing_df \in IF procs[p].existed
                                THEN ReadResults(files, config.partition_granularity,
                                                 procs[p].key, None, None)
                                ELSE { <<>> } :
               procs' = Goto(p, [pc |-> "c_write", op |-> "update_combined_file",
                                 key |-> procs[p].key, data |-> procs[p].data,
                                 combined |-> Combine(existing_df, procs[p].data)])
    /\ UNCHANGED <<config, dirs, files, meta, last, applied, tmps, locks>>

\* update_combined_file: self.write(combined, key), up to the loop of write
C_Write(p, now) ==
    /\ procs[p].pc = "c_write"
    /\ dirs' = dirs \cup {Fold(procs[p].key)}
    /\ procs' = Goto(p, [pc |-> "loop", op |-> "write", key |-> procs[p].key,
                         df |-> procs[p].combined,
                         todo |-> WriteGroups(procs[p].combined, procs[p].key,
                                              config.partition_granularity),
                         metadata |-> None, now |-> now])
    /\ UNCHANGED <<config, files, meta, last, applied, tmps, locks>>

(***************************************************************************)
(* Reads with bounds over a stored dataset.                                *)
(***************************************************************************)
\* timestamps that take two values at every partition level and inside the hour
PruneTimestamps ==
    { DT(y, mo, d, h, mi) : y \in {2023, 2024}, mo \in {1, 2}, d \in {1, 2},
                            h \in {0, 1}, mi \in {0, 30} }

\* the stored datasets: none, one row, a row at every timestamp
PruneTables ==
    { <<>> } \cup { <<Row(t, 1)>> : t \in PruneTimestamps }
             \cup { [i \in 1..Cardinality(PruneTimestamps) |->
                       Row(SomeOrder(PruneTimestamps)[i], 1)] }

\* the bounds of a read: one or both given, start <= end
PruneBounds ==
    { b \in (PruneTimestamps \cup {None}) \X (PruneTimestamps \cup {None}) :
        /\ b[1] # None \/ b[2] # None
        /\ (b[1] # None /\ b[2] # None) => TsLeq(b[1], b[2]) }

\* a dataset is written once and then read with bounds
PruneNext ==
    \/ \E df \in PruneTables, key \in Keys, now \in NowTimes :
          /\ dirs = {}
          /\ last.op = "init"
          /\ Write(df, key, None, now)
    \/ \E key \in Keys, b \in PruneBounds :
          /\ last.op # "read"
          /\ Read(key, b[1], b[2])

SpecPrune == Init /\ [][PruneNext]_vars

(***************************************************************************)
(* Concurrent writers and readers of one key, with crashes.                *)
(***************************************************************************)
AtomTables ==
    { <<Row(DT(2024, 1, 1, 0, 0), 1)>>,
      <<Row(DT(2024, 1, 1, 0, 0), 2), Row(DT(2024, 2, 1, 0, 0), 2)>> }

AtomNext ==
    \/ \E p \in Writers :
        \/ \E df \in AtomTables, key \in Keys, now \in NowTimes :
              W_Begin(p, df, key, None, now)
        \/ W_MkTemp(p)
        \/ W_ParquetPart(p)
        \/ W_ParquetEnd(p)
        \/ W_Rename(p)
        \/ W_Meta(p)
        \/ M_Lock(p)
        \/ M_Timeout(p)
        \/ M_Temp(p)
        \/ M_Dump(p)
        \/ M_Rename(p)
        \/ M_Close(p)
        \/ M_Unlock(p)
        \/ Crash(p)
    \/ \E p \in Readers :
        \/ \E key \in Keys : R_Begin(p, key)
        \/ R_Scan(p)
        \/ R_End(p)

SpecAtomic == Init /\ [][AtomNext]_vars

(***************************************************************************)
(* Concurrent update_metadata and get_metadata calls for one key.          *)
(***************************************************************************)
MetaConcNext ==
    \/ \E p \in Writers :
        \/ \E symbol \in Symbols, provider \in Providers, last_update \in UpdateTimes :
              U_Begin(p, symbol, provider, last_update, 1, "chunk")
        \/ U_Load(p)
        \/ M_Lock(p)
        \/ M_Timeout(p)
        \/ M_Temp(p)
        \/ M_Dump(p)
        \/ M_Rename(p)
        \/ M_Close(p)
        \/ M_Unlock(p)
    \/ \E p \in Readers :
        \/ \E key \in Keys : G_Begin(p, key)
        \/ G_Load(p)

SpecMetaConc == Init /\ [][MetaConcNext]_vars

(***************************************************************************)
(* Write and update_metadata calls of two processes on one key, contending *)
(* for the lock of its metadata file.                                      *)
(***************************************************************************)
LockNext ==
    \E p \in Writers :
        \/ \E df \in AtomTables, key \in Keys, now \in NowTimes :
              W_Begin(p, df, key, None, now)
        \/ W_MkTemp(p)
        \/ W_ParquetPart(p)
        \/ W_ParquetEnd(p)
        \/ W_Rename(p)
        \/ W_Meta(p)
        \/ \E symbol \in Symbols, provider \in Providers, last_update \in UpdateTimes :
              U_Begin(p, symbol, provider, last_update, 1, "chunk")
        \/ U_Load(p)
        \/ M_Lock(p)
        \/ M_Timeout(p)
        \/ M_Temp(p)
        \/ M_Dump(p)
        \/ M_Rename(p)
        \/ M_Close(p)
        \/ M_Unlock(p)

SpecLock == Init /\ [][LockNext]_vars

\* FileLock.acquire ends: a caller at `with lock` gets the lock or the Timeout;
\* nothing makes a caller that holds the lock go on
LockFairness == \A p \in Writers : WF_vars(M_Lock(p) \/ M_Timeout(p))

SpecLockFair == Init /\ [][LockNext]_vars /\ LockFairness

(***************************************************************************)
(* Two processes that write one key at the same time, under every          *)
(* configuration of metadata tracking and locking.                         *)
(***************************************************************************)
InitAnyConfig ==
    /\ config \in [partition_granularity : Granularities,
                    metadata_tracking : BOOLEAN, enable_locking : BOOLEAN]
    /\ Empty

RaceNext ==
    \E p \in Writers :
        \/ \E df \in AtomTables, key \in Keys, now \in NowTimes :
              W_Begin(p, df, key, None, now)
        \/ W_MkTemp(p)
        \/ W_ParquetPart(p)
        \/ W_ParquetEnd(p)
        \/ W_Rename(p)
        \/ W_Meta(p)
        \/ M_Lock(p)
        \/ M_Timeout(p)
        \/ M_Temp(p)
        \/ M_Dump(p)
        \/ M_Rename(p)
        \/ M_Close(p)
        \/ M_Unlock(p)

SpecRace == InitAnyConfig /\ [][RaceNext]_vars

(***************************************************************************)
(* Two processes that call update_combined_file on one key at the same     *)
(* time, each with a chunk of its own.                                     *)
(***************************************************************************)
\* the chunk of process p: one row, in month p of 2024
ChunkOf(p) == <<Row(DT(2024, p, 1, 0, 0), p)>>

UcfNext ==
    \E p \in Writers :
        \/ \E symbol \in Symbols, provider \in Providers :
              C_Begin(p, ChunkOf(p), symbol, provider)
        \/ C_Read(p)
        \/ \E now \in NowTimes : C_Write(p, now)
        \/ W_MkTemp(p)
        \/ W_ParquetPart(p)
        \/ W_ParquetEnd(p)
        \/ W_Rename(p)
        \/ W_Meta(p)
        \/ M_Lock(p)
        \/ M_Timeout(p)
        \/ M_Temp(p)
        \/ M_Dump(p)
        \/ M_Rename(p)
        \/ M_Close(p)
        \/ M_Unlock(p)

SpecUcf == Init /\ [][UcfNext]_vars

(***************************************************************************)
(* StorageConfig: the partition columns derived from the granularity.      *)
(***************************************************************************)
\* a Python list in a field that can hold None
List(s) == [list |-> s]

\* the values partition_granularity is given: the four levels and others
GranularityValues == Granularities \cup {"week", "Month", ""}

Strategies == {"hive", "flat"}

\* the partition_cols argument: left out, or an explicit list
PartitionColsGiven ==
    { None, List(<<>>), List(<<"year">>), List(<<"month", "year">>) }

\* a slip: an unknown granularity falls back to the year alone
FallbackToYear(partition_granularity) ==
    CASE partition_granularity = "year" -> <<"year">>
      [] partition_granularity = "month" -> <<"year", "month">>
      [] partition_granularity = "day" -> <<"year", "month", "day">>
      [] partition_granularity = "hour" -> <<"year", "month", "day", "hour">>
      [] OTHER -> <<"year">>

_get_partition_cols_from_granularity(partition_granularity) ==
    CASE partition_granularity = "year" -> <<"year">>
      [] partition_granularity = "month" -> <<"year", "month">>
      [] partition_granularity = "day" -> <<"year", "month", "day">>
      [] partition_granularity = "hour" -> <<"year", "month", "day", "hour">>
      [] OTHER -> <<"year", "month">>

\* the fields of a StorageConfig after __post_init__
__post_init__(self) ==
    IF self.partition_cols = None
    THEN IF self.strategy = "hive"
         THEN [self EXCEPT !.partition_cols =
                  List(_get_partition_cols_from_granularity(self.partition_granularity))]
         ELSE [self EXCEPT !.partition_cols = List(<<>>)]
    ELSE self

\* the dataclass constructor has stored its arguments and runs __post_init__;
\* the method can be called on the object again
PostInit ==
    /\ config' = __post_init__(config)
    /\ last' = [op |-> "__post_init__", key |-> <<>>, data |-> config, written |-> <<>>,
                ret |-> 0, existed |-> last.op # "init"]
    /\ UNCHANGED <<dirs, files, meta, applied, concVars>>

\* HiveStorage(config)._get_partition_columns()
GetPartitionColumns ==
    /\ last.op # "init"
    /\ last' = [op |-> "_get_partition_columns", key |-> <<>>, data |-> config,
                written |-> <<>>,
                ret |-> List(_get_partition_columns(config.partition_granularity)),
                existed |-> TRUE]
    /\ UNCHANGED <<config, dirs, files, meta, applied, concVars>>

\* the arguments of StorageConfig(...) as the constructor stores them
InitConfig ==
    /\ config \in [strategy : Strategies,
                    partition_granularity : GranularityValues,
                    partition_cols : PartitionColsGiven,
                    metadata_tracking : {TRUE}, enable_locking : {TRUE}]
    /\ Empty

ConfigNext ==
    \/ PostInit
    \/ GetPartitionColumns

SpecConfig == InitConfig /\ [][ConfigNext]_vars

(***************************************************************************)
(* Data profiles (src/src/ml4t/data/storage/data_profile.py): the table    *)
(* handed to generate_profile, the profile made of it, its rendering and   *)
(* its JSON file.                                                          *)
(***************************************************************************)
\* the most rows a profiled table has
MaxProfileRows == 2

\* a null cell and a cell with a value
Null == [null |-> TRUE]
Cell(v) == [null |-> FALSE, v |-> v]

\* the rows the profiled tables are made of
ProfileRow(k) ==
    CASE k = 1 -> [timestamp |-> Cell(DT(2024, 2, 1, 0, 0)), value |-> Cell(1),
                   symbol |-> Cell(<<"b">>)]
      [] k = 2 -> [timestamp |-> Cell(DT(2024, 1, 1, 0, 0)), value |-> Null,
                   symbol |-> Cell(<<"a">>)]
      [] OTHER -> [timestamp |-> Null, value |-> Cell(3), symbol |-> Null]

ProfileRowSet == { ProfileRow(k) : k \in 1..3 }

\* the column lists of the profiled tables
ProfileColumnLists == { <<>>, <<"timestamp", "value">>, <<"timestamp", "symbol", "value">> }

\* pl.DataFrame: its columns in order and its rows (none without columns)
Frame(columns, rows) ==
    [columns |-> columns,
     rows |-> IF columns = <<>> THEN <<>>
              ELSE [i \in DOMAIN rows |-> [c \in Range(columns) |-> rows[i][c]]]]

ProfileFrames ==
    { Frame(columns, rows) : columns \in ProfileColumnLists,
                             rows \in SeqsUpTo(ProfileRowSet, MaxProfileRows) }

\* df[col_name]
Column(df, col_name) == [i \in DOMAIN df.rows |-> df.rows[i][col_name]]

\* str(col.dtype)
DType(col_name) ==
    CASE col_name = "timestamp" -> "Datetime(time_unit='us', time_zone=None)"
      [] col_name = "value" -> "Int64"
      [] OTHER -> "String"

is_numeric(dtype) == dtype = "Int64"

IsDatetime(dtype) == dtype = "Datetime(time_unit='us', time_zone=None)"

\* col.drop_nulls(), as the values of the cells left
drop_nulls(col) ==
    LET kept == SelectSeq(col, LAMBDA c : ~c.null)
    IN  [i \in DOMAIN kept |-> kept[i].v]

\* col.n_unique(): null counts as one value
n_unique(col) == Cardinality(Range(col))

\* a float, as the exact fraction it stands for; float(x) of an integer
Fraction(num, den) == [num |-> num, den |-> den]
Float(x) == Fraction(x, 1)

\* str(x) of a datetime
Str(t) == [str |-> t]

RECURSIVE SumOf(_)
SumOf(s) == IF s = <<>> THEN 0 ELSE Head(s) + SumOf(Tail(s))

\* non_null.mean()
Mean(s) == Fraction(SumOf(s), Len(s))

\* non_null.std(): the square root of the sample variance, which is kept as the
\* fraction under the root
Std(s) ==
    [sqrt |-> Fraction(Len(s) * SumOf([i \in DOMAIN s |-> s[i] * s[i]]) - SumOf(s) * SumOf(s),
                       Len(s) * (Len(s) - 1))]

IntMin(s) == CHOOSE x \in Range(s) : \A y \in Range(s) : x <= y
IntMax(s) == CHOOSE x \in Range(s) : \A y \in Range(s) : y <= x
TsMin(s) == CHOOSE x \in Range(s) : \A y \in Range(s) : TsLeq(x, y)
TsMax(s) == CHOOSE x \in Range(s) : \A y \in Range(s) : TsLeq(y, x)

\* a slip: the statistics of a numeric column are taken without looking at the
\* number of values left, and those of no values are zeros
NumericStatsUnguarded(non_null) ==
    IF Len(non_null) > 0
    THEN [min |-> Float(IntMin(non_null)), max |-> Float(IntMax(non_null)),
          mean |-> Mean(non_null),
          std |-> IF Len(non_null) > 1 THEN Std(non_null) ELSE Float(0)]
    ELSE [min |-> Float(0), max |-> Float(0), mean |-> Float(0), std |-> Float(0)]

\* min_val, max_val, mean_val, std_val of a numeric column
NumericStats(non_null) ==
    IF Len(non_null) > 0
    THEN [min |-> Float(IntMin(non_null)), max |-> Float(IntMax(non_null)),
          mean |-> Mean(non_null),
          std |-> IF Len(non_null) > 1 THEN Std(non_null) ELSE Float(0)]
    ELSE [min |-> None, max |-> None, mean |-> None, std |-> None]

\* min_val, max_val of a datetime column
DatetimeStats(non_null) ==
    IF Len(non_null) > 0
    THEN [min |-> Str(TsMin(non_null)), max |-> Str(TsMax(non_null)),
          mean |-> None, std |-> None]
    ELSE [min |-> None, max |-> None, mean |-> None, std |-> None]

\* the ColumnProfile of one column
ColumnProfile(df, col_name) ==
    LET col == Column(df, col_name)
        dtype_str == DType(col_name)
        stats == CASE is_numeric(dtype_str) -> NumericStats(drop_nulls(col))
                   [] IsDatetime(dtype_str) -> DatetimeStats(drop_nulls(col))
                   [] OTHER -> [min |-> None, max |-> None, mean |-> None, std |-> None]
    IN  [name |-> col_name,
         dtype |-> dtype_str,
         total_count |-> Len(col),
         null_count |-> Len(col) - Len(drop_nulls(col)),
         unique_count |-> n_unique(col),
         min |-> stats.min,
         max |-> stats.max,
         mean |-> stats.mean,
         std |-> stats.std]

\* sorted(df[symbol_col].unique().drop_nulls().to_list())
SymbolsOf(df, symbol_col) ==
    SortedKeys(SomeOrder(Range(drop_nulls(Column(df, symbol_col)))))

\* generate_profile(df, source, timestamp_col, symbol_col); symbol_col "" stands
\* for every value that is not true (None too)
generate_profile(df, source, timestamp_col, symbol_col, now) ==
    LET ts_col == IF timestamp_col \in Range(df.columns)
                  THEN drop_nulls(Column(df, timestamp_col)) ELSE <<>>
    IN  [total_rows |-> Len(df.rows),
         total_columns |-> Len(df.columns),
         columns |-> [j \in DOMAIN df.columns |-> ColumnProfile(df, df.columns[j])],
         generated_at |-> Iso(now),
         source |-> source,
         date_range_start |-> IF Len(ts_col) > 0 THEN Str(TsMin(ts_col)) ELSE None,
         date_range_end |-> IF Len(ts_col) > 0 THEN Str(TsMax(ts_col)) ELSE None,
         symbols |-> IF symbol_col # "" /\ symbol_col \in Range(df.columns)
                     THEN SymbolsOf(df, symbol_col) ELSE <<>>]

\* an exception that leaves a function
Raised(error) == [raised |-> error]

\* a / b
Divide(a, b) == IF b = 0 THEN Raised("ZeroDivisionError") ELSE Fraction(a, b)

\* null_pct of one column in summary()
null_pct(col) ==
    IF col.total_count > 0
    THEN LET q == Divide(col.null_count, col.total_count)
         IN  IF "raised" \in DOMAIN q THEN q ELSE Fraction(q.num * 100, q.den)
    ELSE Float(0)

\* the line of one column in summary(): format(col.std, ".4g") of None raises
ColumnLine(col) ==
    LET pct == null_pct(col)
    IN  IF "raised" \in DOMAIN pct THEN pct
        ELSE IF col.mean # None /\ col.std = None THEN Raised("TypeError")
        ELSE [name |-> col.name, dtype |-> col.dtype, unique |-> col.unique_count,
              null_pct |-> pct, mean |-> col.mean, std |-> col.std]

\* DatasetProfile.summary(): the lines of the text, or the exception
summary(self) ==
    LET details == [j \in DOMAIN self.columns |-> ColumnLine(self.columns[j])]
    IN  IF \E j \in DOMAIN details : "raised" \in DOMAIN details[j]
        THEN details[CHOOSE j \in DOMAIN details :
                        /\ "raised" \in DOMAIN details[j]
                        /\ \A k \in 1..(j - 1) : "raised" \notin DOMAIN details[k]]
        ELSE [generated |-> self.generated_at,
              rows |-> self.total_rows,
              columns |-> self.total_columns,
              date_range |-> IF self.date_range_start # None /\ self.date_range_end # None
                             THEN <<self.date_range_start, self.date_range_end>> ELSE <<>>,
              symbols |-> IF self.symbols # <<>> THEN <<Len(self.symbols)>> ELSE <<>>,
              details |-> details]

\* DatasetProfile.to_dict(): the columns through ColumnProfile.to_dict() (asdict)
to_dict(self) ==
    [total_rows |-> self.total_rows,
     total_columns |-> self.total_columns,
     columns |-> [j \in DOMAIN self.columns |->
                    [f \in DOMAIN self.columns[j] |-> self.columns[j][f]]],
     generated_at |-> self.generated_at,
     source |-> self.source,
     date_range_start |-> self.date_range_start,
     date_range_end |-> self.date_range_end,
     symbols |-> self.symbols]

\* a slip: the optional keys are not looked up and keep the defaults of the class
FromDictDefaults(data) ==
    [total_rows |-> data.total_rows,
     total_columns |-> data.total_columns,
     columns |-> data.columns,
     generated_at |-> data.generated_at,
     source |-> "",
     date_range_start |-> None,
     date_range_end |-> None,
     symbols |-> <<>>]

\* DatasetProfile.from_dict(data): the optional keys through data.get
from_dict(data) ==
    [total_rows |-> data.total_rows,
     total_columns |-> data.total_columns,
     columns |-> [j \in DOMAIN data.columns |->
                    [f \in DOMAIN data.columns[j] |-> data.columns[j][f]]],
     generated_at |-> data.generated_at,
     source |-> IF "source" \in DOMAIN data THEN data.source ELSE "",
     date_range_start |-> IF "date_range_start" \in DOMAIN data
                          THEN data.date_range_start ELSE None,
     date_range_end |-> IF "date_range_end" \in DOMAIN data
                        THEN data.date_range_end ELSE None,
     symbols |-> IF "symbols" \in DOMAIN data THEN data.symbols ELSE <<>>]

\* JSON text, by the value it spells: null, a number with or without a fraction
\* part, a string, an array, an object
JNull == [json |-> "null"]
JInt(n) == [json |-> "int", v |-> n]
JFloat(x) == [json |-> "float", v |-> x]
JStr(s) == [json |-> "string", v |-> s]
JArr(s) == [json |-> "array", v |-> s]
JObj(d) == [json |-> "object", v |-> d]

\* what json.dump writes for min, max, mean, std: None, a str or a float
DumpStat(x) ==
    IF x = None THEN JNull ELSE IF "str" \in DOMAIN x THEN JStr(x) ELSE JFloat(x)

DumpOptStr(x) == IF x = None THEN JNull ELSE JStr(x)

\* json.dump(profile.to_dict(), f, indent=2): the text written
json_dump(d) ==
    JObj([total_rows |-> JInt(d.total_rows),
          total_columns |-> JInt(d.total_columns),
          columns |-> JArr([j \in DOMAIN d.columns |->
              LET c == d.columns[j]
              IN  JObj([name |-> JStr(c.name),
                        dtype |-> JStr(c.dtype),
                        total_count |-> JInt(c.total_count),
                        null_count |-> JInt(c.null_count),
                        unique_count |-> JInt(c.unique_count),
                        min |-> DumpStat(c.min),
                        max |-> DumpStat(c.max),
                        mean |-> DumpStat(c.mean),
                        std |-> DumpStat(c.std)])]),
          generated_at |-> JStr(d.generated_at),
          source |-> JStr(d.source),
          date_range_start |-> DumpOptStr(d.date_range_start),
          date_range_end |-> DumpOptStr(d.date_range_end),
          symbols |-> JArr([i \in DOMAIN d.symbols |-> JStr(d.symbols[i])])])

\* json.load(f): the Python value of a JSON text
RECURSIVE json_load(_)
json_load(j) ==
    CASE j.json = "null" -> None
      [] j.json = "array" -> [i \in DOMAIN j.v |-> json_load(j.v[i])]
      [] j.json = "object" -> [k \in DOMAIN j.v |-> json_load(j.v[k])]
      [] OTHER -> j.v

\* the files the profiles are saved to and loaded from
ProfilePaths == { <<"d", "_profile.json">> }
LoadPaths == ProfilePaths \cup { <<"e", "_profile.json">> }

\* the source arguments of generate_profile
Sources == {"", "ETFDataManager"}

\* the symbol_col arguments of generate_profile ("" for None)
SymbolCols == {"symbol", ""}

\* the profiles that are rendered
Profiles ==
    { generate_profile(df, source, "timestamp", symbol_col, now) :
        df \in ProfileFrames, source \in Sources, symbol_col \in SymbolCols,
        now \in NowTimes }

\* the profiles that are saved: those of tables with no row, one row, two rows
\* and three rows
SavedProfiles ==
    { generate_profile(Frame(columns, rows), source, "timestamp", symbol_col, now) :
        columns \in ProfileColumnLists,
        rows \in { <<>>, <<ProfileRow(2)>>, <<ProfileRow(1), ProfileRow(3)>>,
                   <<ProfileRow(3), ProfileRow(2), ProfileRow(1)>> },
        source \in Sources, symbol_col \in SymbolCols, now \in NowTimes }

\* generate_profile(df, source, symbol_col=symbol_col): no statement of it assigns
\* to df or calls a method that changes df, so the table is the same after it
GenerateProfile(df, source, symbol_col, now) ==
    /\ last' = [op |-> "generate_profile", key |-> <<>>, data |-> df, written |-> df,
                ret |-> generate_profile(df, source, "timestamp", symbol_col, now),
                existed |-> FALSE]
    /\ UNCHANGED <<config, dirs, files, meta, applied, concVars>>

\* profile.summary()
Summary(profile) ==
    /\ last' = [op |-> "summary", key |-> <<>>, data |-> profile, written |-> <<>>,
                ret |-> summary(profile), existed |-> FALSE]
    /\ UNCHANGED <<config, dirs, files, meta, applied, concVars>>

\* save_profile(profile, path)
SaveProfile(profile, path) ==
    /\ files' = DictSet(files, path, json_dump(to_dict(profile)))
    /\ last' = [op |-> "save_profile", key |-> path, data |-> profile, written |-> <<>>,
                ret |-> None, existed |-> path \in DOMAIN files]
    /\ UNCHANGED <<config, dirs, meta, applied, concVars>>

\* load_profile(path)
LoadProfile(path) ==
    /\ last' = [op |-> "load_profile", key |-> path, data |-> <<>>, written |-> <<>>,
                ret |-> IF path \notin DOMAIN files THEN None
                        ELSE from_dict(json_load(files[path])),
                existed |-> path \in DOMAIN files]
    /\ UNCHANGED <<config, dirs, files, meta, applied, concVars>>

ProfileNext ==
    \/ \E df \in ProfileFrames, source \in Sources, symbol_col \in SymbolCols,
          now \in NowTimes : GenerateProfile(df, source, symbol_col, now)
    \/ \E profile \in Profiles : Summary(profile)

SpecProfile == Init /\ [][ProfileNext]_vars

ProfileFileNext ==
    \/ \E profile \in SavedProfiles, path \in ProfilePaths : SaveProfile(profile, path)
    \/ \E path \in LoadPaths : LoadProfile(path)

SpecProfileFile == Init /\ [][ProfileFileNext]_vars

(***************************************************************************)
(* Reads with a column projection.                                         *)
(***************************************************************************)
\* lf.select(columns)
Select(rows, columns) == [i \in DOMAIN rows |-> [c \in Range(columns) |-> rows[i][c]]]

\* the columns argument of read: <<>> stands for None and for an empty list
\* (`if columns:` takes neither)
Projections == { <<>>, <<"timestamp", "value">>, <<"value">>, <<"timestamp">> }

\* the bounds of the reads with a projection
ProjectionBounds == { None, DT(2024, 1, 1, 0, 30), DT(2024, 1, 2, 0, 0) }

\* the schema of the frame the timestamp filter is applied to has no timestamp
FilterFails(start_date, end_date, columns) ==
    /\ columns # <<>>
    /\ "timestamp" \notin Range(columns)
    /\ start_date # None \/ end_date # None

\* read(key, start_date, end_date, columns).collect(): per file the selection
\* comes first and the timestamp filters are applied to what it leaves
ReadColumns(key, start_date, end_date, columns) ==
    LET paths == _find_partition_paths(files, Fold(key),
                                       _get_partition_columns(config.partition_granularity),
                                       start_date, end_date)
        lf(path) == IF columns # <<>> THEN Select(files[path], columns) ELSE files[path]
        call(data, error) ==
            [op |-> "read", key |-> key, data |-> data, written |-> <<>>, ret |-> 0,
             existed |-> Exists(dirs, key), start_date |-> start_date,
             end_date |-> end_date, columns |-> columns, error |-> error]
    IN  /\ CASE ~Exists(dirs, key) -> last' = call(<<>>, "KeyError")
             [] Exists(dirs, key) /\ paths # {} /\ FilterFails(start_date, end_date, columns) ->
                  last' = call(<<>>, "ColumnNotFoundError")
             [] OTHER ->
                  \E order \in PathOrders(paths, start_date, end_date) :
                      last' = call(Concat([i \in DOMAIN order |->
                                              ScanFile(lf(order[i]), start_date, end_date)]),
                                   "none")
        /\ UNCHANGED <<config, dirs, files, meta, applied, concVars>>

\* a dataset is written once and then read with bounds and a projection
ColumnsNext ==
    \/ \E df \in LayoutTables, key \in Keys, now \in NowTimes :
          /\ last.op = "init"
          /\ Write(df, key, None, now)
    \/ \E key \in Keys, start_date \in ProjectionBounds, end_date \in ProjectionBounds,
          columns \in Projections :
          ReadColumns(key, start_date, end_date, columns)

SpecColumns == Init /\ [][ColumnsNext]_vars

(***************************************************************************)
(* delete, read_data, get_metadata and get_latest_timestamp step by step:  *)
(* one process deletes a stored key while another looks it up.             *)
(***************************************************************************)
\* delete: key_path.exists()
D_Begin(p, key) ==
    /\ procs[p].pc = "idle"
    /\ procs' = Goto(p, IF Exists(dirs, key)
                        THEN [pc |-> "d_rmtree", op |-> "delete", key |-> key]
                        ELSE [pc |-> "done", op |-> "delete", key |-> key, ret |-> FALSE])
    /\ UNCHANGED <<config, dirs, files, meta, last, applied, tmps, locks>>

\* delete: shutil.rmtree(key_path) removes one more data file
D_RmFile(p) ==
    /\ procs[p].pc = "d_rmtree"
    /\ \E path \in DOMAIN files :
          /\ path[1] = Fold(procs[p].key)
          /\ files' = [q \in DOMAIN files \ {path} |-> files[q]]
    /\ UNCHANGED <<config, dirs, meta, last, applied, procs, tmps, locks>>

\* delete: shutil.rmtree(key_path) removes the emptied key directory last
D_RmDir(p) ==
    /\ procs[p].pc = "d_rmtree"
    /\ \A path \in DOMAIN files : path[1] # Fold(procs[p].key)
    /\ dirs' = dirs \ {Fold(procs[p].key)}
    /\ procs' = Goto(p, At(p, "d_unlink"))
    /\ UNCHANGED <<config, files, meta, last, applied, tmps, locks>>

\* delete: the metadata file is unlinked when it exists; return True
D_Unlink(p) ==
    /\ procs[p].pc = "d_unlink"
    /\ meta' = Unlink(meta, Fold(procs[p].key))
    /\ applied' = Unlink(applied, Fold(procs[p].key))
    /\ procs' = Goto(p, [pc |-> "done", op |-> "delete", key |-> procs[p].key,
                         ret |-> TRUE])
    /\ UNCHANGED <<config, dirs, files, last, tmps, locks>>

\* read_data: self.exists(key); an empty frame for a key that does not exist
RD_Begin(p, symbol, provider) ==
    /\ procs[p].pc = "idle"
    /\ procs' = Goto(p, IF Exists(dirs, ProviderKey(symbol, provider))
                        THEN [pc |-> "rd_read", op |-> "read_data",
                              key |-> ProviderKey(symbol, provider)]
                        ELSE [pc |-> "done", op |-> "read_data",
                              key |-> ProviderKey(symbol, provider), ret |-> <<>>])
    /\ UNCHANGED <<config, dirs, files, meta, last, applied, tmps, locks>>

\* read_data: self.read(key): the key directory is looked up again and its data
\* files are listed; collect() then scans them
RD_Read(p) ==
    /\ procs[p].pc = "rd_read"
    /\ procs' = Goto(p,
           IF ~Exists(dirs, procs[p].key)
           THEN Raise(p, "KeyError")
           ELSE [pc |-> "scan", op |-> "read", key |-> procs[p].key, acc |-> <<>>,
                 todo |-> SomeOrder(_find_partition_paths(files, Fold(procs[p].key),
                              _get_partition_columns(config.partition_granularity),
                              None, None))])
    /\ UNCHANGED <<config, dirs, files, meta, last, applied, tmps, locks>>

\* get_latest_timestamp: self.exists(key); None for a key that does not exist
L_Begin(p, symbol, provider) ==
    /\ procs[p].pc = "idle"
    /\ procs' = Goto(p, IF Exists(dirs, ProviderKey(symbol, provider))
                        THEN [pc |-> "l_read", op |-> "get_latest_timestamp",
                              key |-> ProviderKey(symbol, provider)]
                        ELSE [pc |-> "done", op |-> "get_latest_timestamp",
                              key |-> ProviderKey(symbol, provider), ret |-> None])
    /\ UNCHANGED <<config, dirs, files, meta, last, applied, tmps, locks>>

\* get_latest_timestamp: self.read(key) inside the try block: the KeyError of a
\* key directory that is gone is caught and None returned
L_Read(p) ==
    /\ procs[p].pc = "l_read"
    /\ procs' = Goto(p,
           IF ~Exists(dirs, procs[p].key)
           THEN [pc |-> "done", op |-> "get_latest_timestamp", key |-> procs[p].key,
                 ret |-> None]
           ELSE [pc |-> "l_scan", op |-> "get_latest_timestamp", key |-> procs[p].key,
                 acc |-> <<>>,
                 todo |-> SomeOrder(_find_partition_paths(files, Fold(procs[p].key),
                              _get_partition_columns(config.partition_granularity),
                              None, None))])
    /\ UNCHANGED <<config, dirs, files, meta, last, applied, tmps, locks>>

\* get_latest_timestamp: collect() scans the next listed file; an error of the
\* scan is caught and None returned
L_Scan(p) ==
    /\ procs[p].pc = "l_scan"
    /\ procs[p].todo # <<>>
    /\ LET path == Head(procs[p].todo)
       IN  procs' = Goto(p,
               IF path \notin DOMAIN files \/ files[path] \in {ZeroBytes, Torn}
               THEN [pc |-> "done", op |-> "get_latest_timestamp", key |-> procs[p].key,
                     ret |-> None]
               ELSE [procs[p] EXCEPT !.todo = Tail(procs[p].todo),
                                     !.acc = procs[p].acc \o files[path]])
    /\ UNCHANGED <<config, dirs, files, meta, last, applied, tmps, locks>>

\* get_latest_timestamp: None for no rows (and for the frame without columns of
\* a key without data files), else the largest timestamp
L_End(p) ==
    /\ procs[p].pc = "l_scan"
    /\ procs[p].todo = <<>>
    /\ procs' = Goto(p, [pc |-> "done", op |-> "get_latest_timestamp",
                         key |-> procs[p].key,
                         ret |-> IF procs[p].acc = <<>> THEN None
                                 ELSE MaxTimestamp(procs[p].acc)])
    /\ UNCHANGED <<config, dirs, files, meta, last, applied, tmps, locks>>

\* a dataset is written; then process 1 deletes the key while process 3 calls
\* one of read_data, get_metadata and get_latest_timestamp on it
DeleteNext ==
    \/ \E df \in ErrTables, key \in Keys, now \in NowTimes :
          /\ last.op = "init"
          /\ \A p \in Procs : procs[p].pc = "idle"
          /\ Write(df, key, None, now)
    \/ \E p \in {1} :
          /\ last.op = "write"
          /\ \/ \E key \in Keys : D_Begin(p, key)
             \/ D_RmFile(p)
             \/ D_RmDir(p)
             \/ D_Unlink(p)
    \/ \E p \in Readers :
          /\ last.op = "write"
          /\ \/ \E symbol \in Symbols, provider \in Providers : RD_Begin(p, symbol, provider)
             \/ RD_Read(p)
             \/ R_Scan(p)
             \/ R_End(p)
             \/ \E key \in Keys : G_Begin(p, key)
             \/ G_Load(p)
             \/ \E symbol \in Symbols, provider \in Providers : L_Begin(p, symbol, provider)
             \/ L_Read(p)
             \/ L_Scan(p)
             \/ L_End(p)

SpecDelete == Init /\ [][DeleteNext]_vars

(***************************************************************************)
(* Writes of two processes on keys of their own, with a third process that *)
(* reads, looks up and deletes: who takes the lock of which metadata file.  *)
(***************************************************************************)
\* the table the two writers store
ScopeTables == { <<Row(DT(2024, 1, 1, 0, 0), 1)>> }

ScopeNext ==
    \/ \E p \in Writers :
          \/ \E df \in ScopeTables, key \in AnyKeys, now \in NowTimes :
                W_Begin(p, df, key, None, now)
          \/ W_MkTemp(p)
          \/ W_ParquetPart(p)
          \/ W_ParquetEnd(p)
          \/ W_Rename(p)
          \/ W_Meta(p)
          \/ M_Lock(p)
          \/ M_Timeout(p)
          \/ M_Temp(p)
          \/ M_Dump(p)
          \/ M_Rename(p)
          \/ M_Close(p)
          \/ M_Unlock(p)
    \/ \E p \in Readers :
          \/ \E key \in AnyKeys : R_Begin(p, key)
          \/ R_Scan(p)
          \/ R_End(p)
          \/ \E key \in AnyKeys : G_Begin(p, key)
          \/ G_Load(p)
          \/ \E key \in AnyKeys : D_Begin(p, key)
          \/ D_RmFile(p)
          \/ D_RmDir(p)
          \/ D_Unlink(p)

SpecScope == Init /\ [][ScopeNext]_vars

(***************************************************************************)
(* Individual futures contracts                                            *)
(* (src/src/ml4t/data/futures/individual_downloader.py): download_all      *)
(* walks the configured products, download_product fetches and stores one  *)
(* of them, _download_contracts is the request, retried by tenacity.  A    *)
(* stored product file is known by its height and by whether it can be     *)
(* read; a status message by its fixed words, the product and the text put *)
(* into it.  The month code table is imported from databento_parser, the   *)
(* months configured are among those the config documents (1-12).          *)
(***************************************************************************)
MaxDownloadRows == 2

Products == {"ES", "CL"}
MonthLists == { <<>>, <<6, 3>> }
YearLists == { <<>>, <<2025, 2024>> }

\* MONTH_TO_CODE for the months configured
MONTH_TO_CODE == (3 :> "H") @@ (6 :> "M")

\* config.products in the order of the dict's keys: product -> its config
ProductDicts ==
    { <<[product |-> "ES", months |-> m]>> : m \in MonthLists } \cup
    { <<[product |-> "CL", months |-> m1], [product |-> "ES", months |-> m2]>> :
         m1 \in MonthLists, m2 \in MonthLists }

\* str(e) of the errors a request ends with
ErrorTexts == { "422 symbology_invalid_request", "Skipped symbols: none resolved" }

\* the texts that hold the word Skipped
HoldsSkipped(text) == text \in { "Skipped symbols: none resolved" }

\* the errors tenacity retries the request on, and the ones it lets through
RetriedErrors == { "BentoServerError", "ConnectionError", "OSError" }
OtherErrors == { "BentoClientError", "ValueError" }

\* stop_after_attempt(3)
stop_after_attempt(attempt_number) == attempt_number >= 3

\* config.get_product_config(product).months
MonthsOf(self, product) ==
    LET e == CHOOSE e \in Range(self.products) : e.product = product IN e.months

\* f"{product}{month_code}{year_suffix}" as its three parts; the strings are
\* ordered by the code and then by the two digits of the year
Symbol(product, month, year) ==
    [product |-> product, code |-> MONTH_TO_CODE[month], suffix |-> year % 100]

SymbolBefore(a, b) ==
    LET ma == CHOOSE m \in DOMAIN MONTH_TO_CODE : MONTH_TO_CODE[m] = a.code
        mb == CHOOSE m \in DOMAIN MONTH_TO_CODE : MONTH_TO_CODE[m] = b.code
    IN  ma < mb \/ (ma = mb /\ a.suffix < b.suffix)

RECURSIVE SortedSymbols(_)
SortedSymbols(symbols) ==
    IF symbols = {} THEN <<>>
    ELSE LET first == CHOOSE a \in symbols : \A b \in symbols \ {a} : SymbolBefore(a, b)
         IN  <<first>> \o SortedSymbols(symbols \ {first})

\* _generate_contract_symbols(product)
_generate_contract_symbols(self, product) ==
    LET months == MonthsOf(self, product)
        symbols == { Symbol(product, months[j], self.years[i]) :
                        i \in DOMAIN self.years, j \in DOMAIN months }
    IN  SortedSymbols(symbols)

\* _get_output_path(product)
_get_output_path(product) == <<product, "data.parquet">>

\* _product_exists(product): the file is there, can be read and has rows
_product_exists(fs, product) ==
    LET path == _get_output_path(product)
    IN  IF path \notin DOMAIN fs THEN FALSE
        ELSE IF ~fs[path].readable THEN FALSE
        ELSE fs[path].rows > 0

\* the status messages of download_product
Msg(words, product, rows, text) ==
    [words |-> words, product |-> product, rows |-> rows, text |-> text]

\* "Skipped" in msg
InMsgSkipped(msg) == msg.words = "Skipped" \/ HoldsSkipped(msg.text)

\* the loop body with a second if in the place of the elif
ClassifyNoElif(results, rows, msg) ==
    LET appended == [results EXCEPT !.messages = Append(@, msg)]
        counted == IF msg.words = "Skipped" \/ msg.text = "Skipped symbols: none resolved"
                   THEN [appended EXCEPT !.skipped = @ + 1] ELSE appended
    IN  IF rows > 0 THEN [counted EXCEPT !.downloaded = @ + 1, !.total_rows = @ + rows]
        ELSE [counted EXCEPT !.failed = @ + 1]

\* the body of the loop of download_all after download_product has returned
Classify(results, rows, msg) ==
    LET appended == [results EXCEPT !.messages = Append(@, msg)]
    IN  IF InMsgSkipped(msg) THEN [appended EXCEPT !.skipped = @ + 1]
        ELSE IF rows > 0 THEN [appended EXCEPT !.downloaded = @ + 1,
                                               !.total_rows = @ + rows]
        ELSE [appended EXCEPT !.failed = @ + 1]

NoResults == [downloaded |-> 0, skipped |-> 0, failed |-> 0, total_rows |-> 0,
              messages |-> <<>>]

\* the one caller of download_all
Downloader == 1

Resting == [pc |-> "idle", op |-> "none", skip_existing |-> FALSE, force |-> FALSE,
            i |-> 0, results |-> NoResults, attempt |-> 0, rows |-> 0,
            msg |-> Msg("", "", 0, "")]

Run == procs[Downloader]

ProductAt(i) == config.products[i].product

\* download_product has returned (rows, msg)
Returned(rows, msg) == [Run EXCEPT !.pc = "classify", !.rows = rows, !.msg = msg]

\* download_all(skip_existing, force) up to the loop; the downloader is run once
DA_Begin(skip_existing, force) ==
    /\ Run.pc = "idle"
    /\ last.op = "init"
    /\ procs' = Goto(Downloader, [Resting EXCEPT !.op = "download_all",
                   !.pc = IF config.products = <<>> THEN "return" ELSE "product",
                   !.skip_existing = skip_existing, !.force = force, !.i = 1])
    /\ UNCHANGED <<config, dirs, files, meta, last, applied, tmps, locks>>

\* download_product up to the request: the product is skipped, has no
\* symbols, or is asked for
DP_Begin ==
    /\ Run.pc = "product"
    /\ LET product == ProductAt(Run.i)
           symbols == _generate_contract_symbols(config, product)
       IN  procs' = Goto(Downloader,
              IF Run.skip_existing /\ ~Run.force /\ _product_exists(files, product)
              THEN Returned(0, Msg("Skipped", product, 0, "already exists"))
              ELSE IF symbols = <<>>
              THEN Returned(0, Msg("No symbols generated for", product, 0, ""))
              ELSE [Run EXCEPT !.pc = "download", !.attempt = 0])
    /\ UNCHANGED <<config, dirs, files, meta, last, applied, tmps, locks>>

\* one attempt of _download_contracts that returns a frame of the given height
DC_Returns(height) ==
    /\ Run.pc = "download"
    /\ LET product == ProductAt(Run.i)
       IN  procs' = Goto(Downloader,
              IF height = 0
              THEN [Returned(0, Msg("No data for", product, 0, ""))
                       EXCEPT !.attempt = @ + 1]
              ELSE [Run EXCEPT !.pc = "save", !.attempt = @ + 1, !.rows = height])
    /\ UNCHANGED <<config, dirs, files, meta, last, applied, tmps, locks>>

\* one attempt of _download_contracts that raises: tenacity calls again, or
\* gives up with RetryError, or lets the error through; download_product
\* turns what reaches it into a message
DC_Raises(error, text) ==
    /\ Run.pc = "download"
    /\ LET product == ProductAt(Run.i)
           attempt_number == Run.attempt + 1
       IN  procs' = Goto(Downloader,
              IF error \in RetriedErrors
              THEN IF stop_after_attempt(attempt_number)
                   THEN [Returned(0, Msg("Failed", product, 0, "RetryError"))
                            EXCEPT !.attempt = attempt_number]
                   ELSE [Run EXCEPT !.attempt = attempt_number]
              ELSE IF error = "BentoClientError"
              THEN [Returned(0, Msg("Error for", product, 0, text))
                       EXCEPT !.attempt = attempt_number]
              ELSE [Returned(0, Msg("Failed", product, 0, text))
                       EXCEPT !.attempt = attempt_number])
    /\ UNCHANGED <<config, dirs, files, meta, last, applied, tmps, locks>>

\* mkdir, sort and write_parquet: the file is written; or mkdir raises and no
\* file is touched; or write_parquet raises and leaves a part of the file
DP_Save(outcome) ==
    /\ Run.pc = "save"
    /\ LET product == ProductAt(Run.i)
           path == _get_output_path(product)
       IN  /\ files' = CASE outcome = "written" ->
                              DictSet(files, path, [rows |-> Run.rows, readable |-> TRUE])
                         [] outcome = "torn" ->
                              DictSet(files, path, [rows |-> 0, readable |-> FALSE])
                         [] OTHER -> files
           /\ procs' = Goto(Downloader,
                 IF outcome = "written"
                 THEN Returned(Run.rows, Msg("Downloaded", product, Run.rows, "contracts"))
                 ELSE Returned(0, Msg("Failed", product, 0, "OSError")))
    /\ UNCHANGED <<config, dirs, meta, last, applied, tmps, locks>>

\* the rest of the loop body, and the next product if there is one
DA_Classify ==
    /\ Run.pc = "classify"
    /\ procs' = Goto(Downloader,
          [Run EXCEPT !.results = Classify(Run.results, Run.rows, Run.msg),
                      !.i = @ + 1,
                      !.pc = IF Run.i = Len(config.products) THEN "return"
                             ELSE "product"])
    /\ UNCHANGED <<config, dirs, files, meta, last, applied, tmps, locks>>

\* return results
DA_Return ==
    /\ Run.pc = "return"
    /\ last' = [op |-> "download_all", key |-> <<>>,
                data |-> [skip_existing |-> Run.skip_existing, force |-> Run.force],
                written |-> <<>>, ret |-> Run.results, existed |-> FALSE]
    /\ procs' = Goto(Downloader, Resting)
    /\ UNCHANGED <<config, dirs, files, meta, applied, tmps, locks>>

\* IndividualDownloader(config) over a storage path that holds nothing, or a
\* file of ES that an earlier run left: with a row, without rows, half written
InitDownload ==
    /\ config \in [products : ProductDicts, years : YearLists]
    /\ dirs = {}
    /\ files \in { NoFiles,
                   (_get_output_path("ES") :> [rows |-> 1, readable |-> TRUE]),
                   (_get_output_path("ES") :> [rows |-> 0, readable |-> TRUE]),
                   (_get_output_path("ES") :> [rows |-> 0, readable |-> FALSE]) }
    /\ meta = NoFiles
    /\ applied = NoFiles
    /\ last = [op |-> "init", key |-> <<>>, data |-> <<>>, written |-> <<>>, ret |-> 0,
               existed |-> FALSE]
    /\ procs = (Downloader :> Resting)
    /\ tmps = NoFiles
    /\ locks = NoFiles

DownloadNext ==
    \/ \E skip_existing \in BOOLEAN, force \in BOOLEAN : DA_Begin(skip_existing, force)
    \/ DP_Begin
    \/ \E height \in 0..MaxDownloadRows : DC_Returns(height)
    \/ \E error \in RetriedErrors \cup OtherErrors, text \in ErrorTexts :
          DC_Raises(error, text)
    \/ \E outcome \in {"written", "mkdir failed", "torn"} : DP_Save(outcome)
    \/ DA_Classify
    \/ DA_Return

SpecDownload == InitDownload /\ [][DownloadNext]_vars

(***************************************************************************)
(* What the claims speak of.                                               *)
(***************************************************************************)
\* the rows stored for a key, as a multiset (none when the key is absent)
Stored(ds, fs, key) ==
    IF Exists(ds, key)
    THEN ReadBag(fs, config.partition_granularity, key, None, None)
    ELSE BagOf(<<>>)

\* the number of rows a multiset holds
RECURSIVE BagSize(_)
BagSize(b) ==
    IF DOMAIN b = {} THEN 0
    ELSE LET r == CHOOSE r \in DOMAIN b : TRUE
         IN  b[r] + BagSize([x \in DOMAIN b \ {r} |-> b[x]])

\* the data files of the key that write(df, key) does not touch
Untouched(fs, df, key) ==
    Glob(fs, Fold(key), _get_partition_columns(config.partition_granularity))
        \ { g.path : g \in Range(WriteGroups(df, key, config.partition_granularity)) }

\* the rows of the files in paths, in some order of the files
RowsOf(fs, paths) == ReadIn(fs, SomeOrder(paths), None, None)

\* the timestamps of a multiset of rows
TimestampsOf(b) == { r.timestamp : r \in DOMAIN b }

(* C2, as claimed: after write(df, key) on a key in any state, absent or
   populated, read(key) without bounds gives exactly the rows of df. *)
C2_RoundTripAnyState ==
    last.op = "write" => Stored(dirs, files, last.key) = BagOf(last.data)

(* C2, amended: after write(df, key), read(key) without bounds gives exactly
   the rows of df when the key was absent before the write or every partition
   stored for it has a time bucket that occurs in df (write replaces the
   partitions df covers and leaves the others readable). *)
C2_RoundTrip ==
    (last.op = "write" /\ Untouched(files, last.data, last.key) = {})
        => /\ Stored(dirs, files, last.key) = BagOf(last.data)
           /\ \A t \in ReadResults(files, config.partition_granularity, last.key, None, None) :
                 BagOf(t) = BagOf(last.data)

\* a write of two rows to a populated key, covering every partition stored for it
C2_Witness ==
    /\ last.op = "write"
    /\ last.existed
    /\ Len(last.data) = 2
    /\ last.data[1].timestamp.month # last.data[2].timestamp.month
    /\ Untouched(files, last.data, last.key) = {}

(* C4: update_combined_file returns the number of rows the stored dataset
   gained, rows stored after the call minus rows stored before it, which is
   the number of timestamps of data that were not stored yet. *)
C4_ReturnsRowsGained ==
    [][last'.op = "update_combined_file" =>
         /\ last'.ret = BagSize(Stored(dirs', files', last'.key))
                          - BagSize(Stored(dirs, files, last'.key))
         /\ last'.ret = Cardinality(TimestampsOf(BagOf(last'.data))
                                      \ TimestampsOf(Stored(dirs, files, last'.key)))]_vars

(* C5: after every update_combined_file, read(key) holds at most one row per
   timestamp, for a timestamp of the chunk that row is the chunk's last row
   of that timestamp, and the table handed to write ascends by timestamp. *)
C5_DedupKeepsLatestSorted ==
    last.op = "update_combined_file" =>
        /\ \A t \in ReadResults(files, config.partition_granularity, last.key, None, None) :
              /\ \A i, j \in DOMAIN t : t[i].timestamp = t[j].timestamp => i = j
              /\ \A i \in DOMAIN last.data :
                    (\A j \in DOMAIN last.data :
                        j > i => last.data[j].timestamp # last.data[i].timestamp)
                    => last.data[i] \in Range(t)
        /\ \A i, j \in DOMAIN last.written :
              i < j => TsLess(last.written[i].timestamp, last.written[j].timestamp)

\* a chunk of two timestamps, one of which was stored before the call
C5_Witness ==
    /\ last.op = "update_combined_file"
    /\ last.existed
    /\ Len(last.data) = 2
    /\ last.data[1].timestamp # last.data[2].timestamp
    /\ last.ret = -1

(* C6: applying update_combined_file once more with the same chunk leaves the
   key's data files, and so its stored rows, as they are. *)
C6_Idempotent ==
    last.op = "update_combined_file" =>
        \A existing_df \in ExistingTables(last.key) :
            /\ WriteFiles(files, WriteGroups(Combine(existing_df, last.data), last.key,
                                             config.partition_granularity)) = files
            /\ Fold(last.key) \in dirs

\* an update of a populated key with a chunk of two rows
C6_Witness ==
    /\ last.op = "update_combined_file"
    /\ last.existed
    /\ Len(last.data) = 2
    /\ last.ret = 0

\* the top-level fields of the document write hands to _update_metadata
WriteFields == {"last_updated", "partitions", "row_count", "schema", "custom"}

(* C9: a write on a key whose metadata document holds top-level fields that
   are not in write's payload (update_history, last_update, first_update,
   symbol, provider) keeps those fields and their values. *)
C9_WriteMergesMetadata ==
    [][(last'.op = "write" /\ Fold(last'.key) \in DOMAIN meta) =>
         \A f \in DOMAIN meta[Fold(last'.key)].doc \ WriteFields :
             /\ f \in DOMAIN meta'[Fold(last'.key)].doc
             /\ meta'[Fold(last'.key)].doc[f] = meta[Fold(last'.key)].doc[f]]_vars

(* C10: once update_metadata has been applied to a key, after any further
   write, update_combined_file and update_metadata calls on the key its
   metadata holds an update_history of at most 100 entries whose last entry
   carries the timestamp of the latest update_metadata call applied. *)
C10_HistoryMonotone ==
    \A dir \in DOMAIN applied :
        /\ dir \in DOMAIN meta
        /\ "update_history" \in DOMAIN meta[dir].doc
        /\ Len(meta[dir].doc["update_history"]) \in 1..HistoryCap
        /\ meta[dir].doc["update_history"][Len(meta[dir].doc["update_history"])].timestamp
             = Iso(applied[dir])

\* every row stored for a key, file by file
AllStored(fs, key) ==
    RowsOf(fs, Glob(fs, Fold(key), _get_partition_columns(config.partition_granularity)))

(* C3: for every stored dataset, every granularity and all bounds
   start <= end, read(key, start, end) gives exactly the stored rows with
   start <= timestamp < end: none missing, none out of range. *)
C3_PruningExact ==
    (last.op = "read" /\ last.existed) =>
        LET all == AllStored(files, last.key)
            inRange == { i \in DOMAIN all :
                           /\ last.start_date # None
                                => TsLeq(last.start_date, all[i].timestamp)
                           /\ last.end_date # None
                                => TsLess(all[i].timestamp, last.end_date) }
        IN  BagOf(last.data) = BagOf(Pick(all, inRange, 1))

\* a read whose start lies inside a partition and whose end lies on the first
\* instant of a later one, with rows before, between and after the bounds
C3_Witness ==
    /\ last.op = "read"
    /\ last.existed
    /\ last.start_date = DT(2023, 2, 2, 1, 30)
    /\ last.end_date = DT(2024, 2, 1, 0, 0)
    /\ Len(last.data) = 9
    /\ Len(AllStored(files, last.key)) = 32

\* the partition writes the calls of the processes issue: target path and rows
IssuedWrites ==
    UNION { Range(WriteGroups(CallOf(p).df, CallOf(p).key, config.partition_granularity)) :
            p \in { q \in Procs : CallOf(q).op = "write" } }

\* the data files a reading process has scanned so far
Scanned(p) ==
    IF procs[p].pc = "scan" THEN Range(procs[p].acc)
    ELSE IF procs[p].pc = "done" /\ procs[p].op = "read" THEN Range(procs[p].ret)
    ELSE {}

(* C1: in every reachable state, with writers crashing at any step and
   writers and readers of one key interleaving in any way, each partition's
   data.parquet is absent or holds the complete rows of exactly one partition
   write, and a reader never observes a partially written data file. *)
C1_PartitionFileAtomic ==
    /\ \A path \in DOMAIN files :
          [path |-> path, rows |-> files[path]] \in IssuedWrites
    /\ \A p \in Readers :
          /\ Scanned(p) \subseteq IssuedWrites
          /\ procs[p].pc = "raised" => procs[p].error # "ComputeError"

\* a writer crashed leaving a partly written temporary file, the other writer
\* is in the middle of writing a partition that is already stored, and the
\* reader has read the stored data
C1_Witness ==
    /\ \E w \in Writers :
          /\ procs[w].pc = "crashed"
          /\ \E n \in DOMAIN tmps :
                n[1] = w /\ "content" \in DOMAIN tmps[n] /\ tmps[n].content = Torn
    /\ \E w \in Writers :
          /\ procs[w].pc = "write_parquet_end"
          /\ Head(procs[w].todo).path \in DOMAIN files
    /\ \E r \in Readers :
          /\ procs[r].pc = "done"
          /\ procs[r].op = "read"
          /\ procs[r].ret # <<>>

\* the history entry the update_metadata call of process p appends
EntryOf(p) == procs[p].doc["update_history"][Len(procs[p].doc["update_history"])]

(* C7: with enable_locking set, when two update_metadata calls for one key
   run concurrently, after both have returned the key's update_history
   contains the entries of both calls. *)
C7_NoLostUpdate ==
    (/\ config.enable_locking
     /\ \A p \in Writers : procs[p].pc = "done" /\ procs[p].op = "update_metadata"
     /\ \A p, q \in Writers : procs[p].key = procs[q].key)
    => \A p \in Writers :
          LET history == meta[Fold(procs[p].key)].doc["update_history"]
          IN  Cardinality({ i \in DOMAIN history : history[i] = EntryOf(p) })
                >= Cardinality({ q \in Writers : EntryOf(q) = EntryOf(p) })

(* C8: at every step of a metadata update, a concurrent get_metadata(key)
   returns None, the complete previous document or the complete new one, and
   never reads an empty or truncated file. *)
C8_MetadataReplacedAtomically ==
    \A p \in Readers :
        (procs[p].pc = "raised" /\ procs[p].call.op = "get_metadata")
            => procs[p].error # "JSONDecodeError"

\* the history entry of the k-th call of the long run
HistEntry(k) == [timestamp |-> Iso(CallTime(k)), records_added |-> k, chunk_file |-> "chunk"]

\* the smaller of two numbers
Min(a, b) == IF a <= b THEN a ELSE b

(* C11: after n update_metadata calls on a key and no other metadata writer,
   update_history holds exactly the last min(n, 100) entries in call order,
   and last_update is that of the latest call. *)
C11_HistoryLastHundred ==
    \A key \in Keys :
        CallsMade(key) > 0 =>
            LET n == CallsMade(key)
                kept == Min(n, 100)
                doc == get_metadata(meta, key)
            IN  /\ doc["update_history"] = [i \in 1..kept |-> HistEntry(n - kept + i)]
                /\ doc["last_update"] = Iso(CallTime(n))
                /\ doc["first_update"] = Iso(CallTime(1))

\* 102 calls made: the entries of the first two calls are dropped
C11_Witness ==
    \E key \in Keys :
        /\ CallsMade(key) = 102
        /\ Len(get_metadata(meta, key)["update_history"]) = 100
        /\ get_metadata(meta, key)["update_history"][1] = HistEntry(3)

\* the write calls that have left the loop over their partitions
PastLoop == { p \in Procs : CallOf(p).op = "write" /\ "doc" \in DOMAIN CallOf(p) }

(* C12: in write the metadata record is written strictly after every
   partition file of that write has been renamed into place: no metadata
   record of a write is on disk, also after a crash at any step, while a
   partition listed in it is not yet fully written by that write. *)
C12_MetadataAfterData ==
    \A dir \in DOMAIN meta :
        \E p \in PastLoop :
            /\ CallOf(p).doc = meta[dir].doc
            /\ \A i \in DOMAIN meta[dir].doc.partitions :
                  /\ meta[dir].doc.partitions[i] \in DOMAIN files
                  /\ files[meta[dir].doc.partitions[i]] \notin {ZeroBytes, Torn}

\* the record of a write of two partitions is on disk, and the other writer
\* crashed with a partition still to write
C12_Witness ==
    /\ \E dir \in DOMAIN meta : Len(meta[dir].doc.partitions) = 2
    /\ \E w \in Writers :
          /\ procs[w].pc = "crashed"
          /\ "todo" \in DOMAIN procs[w]
          /\ procs[w].todo # <<>>

(* C13: after any sequence of write and delete calls list_keys() returns the
   keys written and not deleted afterwards, each in its original form, also
   for keys that contain "_"; so the key of a write that just returned is
   in the list. *)
C13_ListKeysOriginalForm ==
    last.op = "write" => last.key \in Range(list_keys(dirs))

(* C14: key isolation: write, update_combined_file, update_metadata and
   delete on a key A leave exists(B), the rows of read(B) and get_metadata(B)
   of every other key B unchanged. *)
C14_KeyIsolation ==
    [][ last'.op \in {"write", "update_combined_file", "update_metadata", "delete"}
        => \A B \in AnyKeys \ {last'.key} :
              /\ Exists(dirs', B) = Exists(dirs, B)
              /\ Stored(dirs', files', B) = Stored(dirs, files, B)
              /\ get_metadata(meta', B) = get_metadata(meta, B) ]_vars

(* C15: for every key containing "/", after write(df, key) every key that
   list_keys() returns folds to the name of the directory it was listed
   for, no two listed directories give one key, and the directory of the
   written key is among them. *)
C15_ListedKeysResolve ==
    (last.op = "write" /\ "/" \in Range(last.key)) =>
        LET keys == list_keys(dirs)
        IN  /\ { Fold(keys[i]) : i \in DOMAIN keys } = dirs
            /\ Len(keys) = Cardinality(dirs)
            /\ \E i \in DOMAIN keys : Fold(keys[i]) = Fold(last.key)

\* a key with "_" and "/" was written while another key directory exists
C15_Witness ==
    /\ last.op = "write"
    /\ last.key = <<"a", "_", "b", "/", "c">>
    /\ Cardinality(dirs) = 2
    /\ Len(list_keys(dirs)) = 2

(* C16: after delete(key) returns, whatever write, update_combined_file and
   update_metadata calls preceded it, the key has neither a data directory
   nor a metadata file, and delete returned True exactly when the key's
   directory existed. *)
C16_DeleteRemovesAll ==
    last.op = "delete" =>
        /\ ~Exists(dirs, last.key)
        /\ get_metadata(meta, last.key) = None
        /\ last.ret = last.existed

(* C17: a key goes from absent to populated only through a write or
   update_combined_file call that returns, and from populated to absent only
   through delete; a write that raises leaves an absent key absent. *)
C17_KeyStateMachine ==
    [][ \A key \in ErrKeys :
          /\ (~Exists(dirs, key) /\ Exists(dirs', key))
                => last'.op \in {"write", "update_combined_file"}
          /\ (Exists(dirs, key) /\ ~Exists(dirs', key)) => last'.op = "delete" ]_vars

(* C18: write of data without a timestamp column raises and leaves the
   storage exactly as before, for an absent and for a populated key: no
   directory, data file, temporary file or metadata record is made or
   changed. *)
C18_SchemaErrorNoEffect ==
    [][ (last'.op = "write_raised" /\ last'.ret = "ValueError")
        => /\ dirs' = dirs
           /\ files' = files
           /\ meta' = meta
           /\ tmps' = tmps ]_vars

\* the write without a timestamp column was made on a populated key, while
\* another key is absent
C18_Witness ==
    /\ last.op = "write_raised"
    /\ last.ret = "ValueError"
    /\ last.existed
    /\ \E path \in DOMAIN files : path[1] = Fold(last.key)
    /\ \E key \in ErrKeys : ~Exists(dirs, key)

\* the calls that only look at a key
Lookups == {"read", "read_data", "get_latest_timestamp", "get_metadata", "exists"}

(* C19, as claimed: for a key that is absent, read raises key-not-found,
   read_data returns an empty table, and get_latest_timestamp and
   get_metadata return None and exists returns False. *)
C19_AbsentKeyLookups ==
    (last.op \in Lookups /\ ~last.existed) =>
        /\ last.op = "read" => last.ret = "KeyError"
        /\ last.op = "read_data" => last.data = <<>>
        /\ last.op = "get_latest_timestamp" => last.ret = None
        /\ last.op = "get_metadata" => last.ret = None
        /\ last.op = "exists" => last.ret = FALSE

(* C19, amended: for a key that is absent, read raises key-not-found,
   read_data returns an empty table, get_latest_timestamp returns None and
   exists returns False, none of them changing the storage; get_metadata
   returns None when no update_metadata has been applied to the key since
   it last had a directory, and else the document update_metadata stored. *)
C19_AbsentKeyLookupsButMetadata ==
    [][ (last'.op \in Lookups /\ ~last'.existed)
        => /\ UNCHANGED <<dirs, files, meta, tmps, locks>>
           /\ last'.op = "read" => last'.ret = "KeyError"
           /\ last'.op = "read_data" => last'.data = <<>>
           /\ last'.op = "get_latest_timestamp" => last'.ret = None
           /\ last'.op = "exists" => last'.ret = FALSE
           /\ last'.op = "get_metadata" =>
                 IF Fold(last'.key) \in DOMAIN applied
                 THEN /\ last'.ret # None
                      /\ last'.ret["last_update"] = Iso(applied[Fold(last'.key)])
                 ELSE last'.ret = None ]_vars

\* get_metadata on an absent key to which update_metadata was applied
C19_Witness ==
    /\ last.op = "get_metadata"
    /\ ~last.existed
    /\ last.ret # None
    /\ HistoryLen(meta, last.key) = 2

(* C20: if writing the temporary file of a partition fails before the
   rename, write raises, the partition's data.parquet keeps its previous
   content or stays absent, and no partition of this or any other key is
   changed by the failed partition write: only the partitions the same call
   wrote before it differ. *)
C20_FailedPartitionWriteNoEffect ==
    [][ (last'.op = "write_raised" /\ last'.ret = "OSError")
        => LET groups == WriteGroups(last'.data, last'.key, config.partition_granularity)
               earlier == { groups[i].path : i \in 1..(last'.failed - 1) }
           IN  /\ \A path \in (DOMAIN files \cup DOMAIN files') \ earlier :
                     /\ path \in DOMAIN files
                     /\ path \in DOMAIN files'
                     /\ files'[path] = files[path]
               /\ meta' = meta ]_vars

\* the second partition write of a call failed, leaving a partly written
\* temporary file, on a partition that holds rows of an earlier write
C20_Witness ==
    /\ last.op = "write_raised"
    /\ last.ret = "OSError"
    /\ last.failed = 2
    /\ \E n \in DOMAIN tmps :
          /\ tmps[n].content = Torn
          /\ tmps[n].target \in DOMAIN files
          /\ files[tmps[n].target] # <<>>
    /\ \E key \in ErrKeys : key # last.key /\ Exists(dirs, key)

(* C21: when a multi-partition write fails at its k-th partition, the
   partitions renamed before it hold the new rows, the failing partition and
   those not yet reached keep their previous content or stay absent, the
   error reaches the caller and the key's metadata record is not updated. *)
C21_PartialFailureKeepsSucceeded ==
    [][ (last'.op = "write_raised" /\ last'.ret = "OSError")
        => LET groups == WriteGroups(last'.data, last'.key, config.partition_granularity)
           IN  /\ \A i \in 1..(last'.failed - 1) :
                     /\ groups[i].path \in DOMAIN files'
                     /\ files'[groups[i].path] = groups[i].rows
               /\ \A i \in last'.failed..Len(groups) :
                     IF groups[i].path \in DOMAIN files
                     THEN /\ groups[i].path \in DOMAIN files'
                          /\ files'[groups[i].path] = files[groups[i].path]
                     ELSE groups[i].path \notin DOMAIN files'
               /\ get_metadata(meta', last'.key) = get_metadata(meta, last'.key) ]_vars

\* the second of two partition writes failed on a key written before: the first
\* partition holds the new row in place of the old one, the second is absent,
\* and the metadata record is still that of the earlier write of one row
C21_Witness ==
    /\ last.op = "write_raised"
    /\ last.ret = "OSError"
    /\ last.failed = 2
    /\ LET groups == WriteGroups(last.data, last.key, config.partition_granularity)
       IN  /\ Len(groups) = 2
           /\ files[groups[1].path] = groups[1].rows
           /\ groups[2].path \notin DOMAIN files
    /\ get_metadata(meta, last.key) # None
    /\ get_metadata(meta, last.key).row_count = 1

\* process p is at `with lock` of _update_metadata
Waiting(p) == procs[p].pc = "m_lock"

\* the call of process p ended with the lock-timeout error
TimedOut(p) == procs[p].pc = "raised" /\ procs[p].error = "Timeout"

\* another process holds the lock of the key of the call of process p
HeldByOther(p) ==
    /\ "key" \in DOMAIN CallOf(p)
    /\ Fold(CallOf(p).key) \in DOMAIN locks
    /\ locks[Fold(CallOf(p).key)] # p

(* C22: if the metadata lock of the key is not acquired during write, the
   call fails with the lock-timeout error, every partition file the call
   wrote stays in place with its rows, which read(key) returns, and the
   key's metadata document is left as it was. *)
C22_LockTimeoutKeepsData ==
    [][ \A p \in Writers :
          (Waiting(p) /\ procs[p].op = "write" /\ procs'[p].pc = "raised")
          => /\ procs'[p].error = "Timeout"
             /\ files' = files
             /\ meta' = meta
             /\ (\A q \in Writers \ {p} : CallOf(q).op # "write")
                   => /\ \A g \in Range(WriteGroups(procs[p].df, procs[p].key,
                                                     config.partition_granularity)) :
                            /\ g.path \in DOMAIN files'
                            /\ files'[g.path] = g.rows
                      /\ Stored(dirs', files', procs[p].key) = BagOf(procs[p].df) ]_vars

\* a write of two partitions ended with the timeout while the other process
\* holds the lock in an update_metadata call whose document is on disk
C22_Witness ==
    \E p \in Writers :
        /\ TimedOut(p)
        /\ procs[p].call.op = "write"
        /\ Cardinality(DOMAIN files) = 2
        /\ \E q \in Writers \ {p} :
              /\ procs[q].pc = "m_unlock"
              /\ procs[q].op = "update_metadata"
        /\ HistoryLen(meta, procs[p].call.key) = 1

(* C23: a metadata update with locking enabled never blocks forever: a
   caller waiting for the lock of the key gets it or ends with the timeout
   error, it ends with the timeout error when another process holds the lock
   and never releases it, and a call that ended so does not try again. *)
C23_LockWaitBounded ==
    /\ \A p \in Writers : Waiting(p) ~> ~Waiting(p)
    /\ \A p \in Writers :
          []((Waiting(p) /\ []HeldByOther(p)) => <>TimedOut(p))
    /\ [][ \A p \in Writers :
              TimedOut(p) => /\ procs'[p] = procs[p]
                             /\ \A dir \in DOMAIN locks' : locks'[dir] # p ]_vars

\* a caller ended with the timeout error while the other one holds the lock
C23_Witness ==
    \E p \in Writers :
        /\ TimedOut(p)
        /\ HeldByOther(p)
        /\ \E q \in Writers \ {p} : procs[q].pc = "m_dump"

\* the partition writes of the write call of process p
GroupsOf(p) ==
    Range(WriteGroups(CallOf(p).df, CallOf(p).key, config.partition_granularity))

(* C24, as claimed: when two processes write the same partition of the same
   key concurrently, in every interleaving both writes complete without
   error and the partition's data.parquet finally holds the complete rows of
   the writer whose rename happened last. *)
C24_BothWritesSucceed ==
    /\ \A p \in Writers : procs[p].pc # "raised"
    /\ (\A p \in Writers : procs[p].pc = "done")
          => \A path \in DOMAIN files :
                \E p \in Writers : [path |-> path, rows |-> files[path]] \in GroupsOf(p)

(* C24, amended: when two processes write the same partition of the same key
   concurrently, in every interleaving every partition write of both is
   renamed in without error, each rename puts the complete rows of its
   writer in place of whatever the file held (so the file finally holds the
   rows of the last rename, never a mixture), and no other step changes a
   data file; a write ends with an error only when metadata tracking and
   locking are on and its metadata update does not get the lock held by the
   other writer, with all its partitions renamed in before. *)
C24_LastRenameWins ==
    [][ /\ \A p \in Writers :
              IF procs[p].pc = "rename" /\ procs'[p].pc = "loop"
              THEN \E g \in GroupsOf(p) :
                      /\ g = Head(procs[p].todo)
                      /\ files' = DictSet(files, g.path, g.rows)
              ELSE procs'[p] # procs[p] => files' = files
        /\ \A p \in Writers :
              (procs'[p].pc = "raised" /\ procs[p].pc # "raised")
              => /\ procs'[p].error = "Timeout"
                 /\ config.metadata_tracking /\ config.enable_locking
                 /\ \E q \in Writers \ {p} : locks[Fold(procs[p].key)] = q
                 /\ \A g \in GroupsOf(p) : g.path \in DOMAIN files
        /\ (\A p \in Writers : procs'[p].pc \in {"done", "raised"})
              => \A path \in DOMAIN files' :
                    \E p \in Writers :
                       [path |-> path, rows |-> files'[path]] \in GroupsOf(p) ]_vars

\* both writers wrote the same partition with different rows; one returned
\* and the other ended with the timeout
C24_Witness ==
    /\ \E p \in Writers : procs[p].pc = "done" /\ procs[p].op = "write"
    /\ \E p \in Writers : procs[p].pc = "raised"
    /\ \E g1 \in GroupsOf(1), g2 \in GroupsOf(2) :
          /\ g1.path = g2.path
          /\ g1.rows # g2.rows
          /\ files[g1.path] = g2.rows

(* C25: when two update_combined_file calls with chunks of disjoint
   timestamps run concurrently on the same key, in every interleaving, after
   both have returned read(key) contains the rows of both chunks. *)
C25_NoChunkLost ==
    (\A p \in Writers : procs[p].pc = "done")
        => \A p \in Writers : \A key \in Keys :
              Range(ChunkOf(p)) \subseteq DOMAIN Stored(dirs, files, key)

(* C26: save_chunk changes only the .chunks side area: for every key,
   exists(key), the rows of read(key), get_metadata(key) and list_keys()
   are the same after save_chunk as before it. *)
C26_SaveChunkInvisible ==
    [][ last'.op = "save_chunk"
        => /\ list_keys(dirs') = list_keys(dirs)
           /\ \A key \in ChunkKeys :
                 /\ Exists(dirs', key) = Exists(dirs, key)
                 /\ Stored(dirs', files', key) = Stored(dirs, files, key)
                 /\ get_metadata(meta', key) = get_metadata(meta, key) ]_vars

\* the names of the partition directories, outermost first, as far as the
\* configured granularity goes
LevelNames ==
    SubSeq(<<"year", "month", "day", "hour">>, 1,
           CASE config.partition_granularity = "year" -> 1
             [] config.partition_granularity = "month" -> 2
             [] config.partition_granularity = "day" -> 3
             [] OTHER -> 4)

\* the partition directory of timestamp t under the directory of key: one
\* "col=val" component per level
BucketOf(key, t) ==
    <<Fold(key), [j \in DOMAIN LevelNames |-> [col |-> LevelNames[j], val |-> t[LevelNames[j]]]]>>

(* C27: after any sequence of writes and incremental updates on a key,
   every partition file lies under directories year, month, day, hour in
   that order as far as the granularity goes, every row in it has the year,
   month, day and hour of its path and no partition columns, and all rows of
   the last write that fall in one bucket are in that bucket's one file. *)
C27_PartitionLayout ==
    /\ \A p \in DOMAIN files :
          /\ [j \in DOMAIN p[2] |-> p[2][j].col] = LevelNames
          /\ \A i \in DOMAIN files[p] :
                /\ \E key \in Keys : p = BucketOf(key, files[p][i].timestamp)
                /\ DOMAIN files[p][i] = {"timestamp", "value"}
    /\ last.op \in {"write", "update_combined_file"}
          => \A i \in DOMAIN last.written :
                LET p == BucketOf(last.key, last.written[i].timestamp)
                IN  /\ p \in DOMAIN files
                    /\ files[p] = Pick(last.written,
                                       { k \in DOMAIN last.written :
                                           BucketOf(last.key, last.written[k].timestamp) = p },
                                       1)

\* the three days of bars were written by one call at day granularity on a key
\* that holds a partition of another year
C27_Witness ==
    /\ last.op = "write"
    /\ last.data = ThreeDays
    /\ config.partition_granularity = "day"
    /\ Cardinality(DOMAIN files) = 4
    /\ Len(files[BucketOf(last.key, DT(2024, 1, 1, 0, 0))]) = 2

(* C28: after write(df, key) with metadata tracking enabled,
   get_metadata(key)["row_count"] is the number of rows of the df passed to
   that write, not the number of rows stored for the key; for 3 days of bars
   written in one call at day granularity to an absent key it is the number
   of rows written and there are exactly 3 partitions. *)
C28_RowCountOfLastWrite ==
    last.op \in {"write", "update_combined_file"} =>
        /\ get_metadata(meta, last.key) # None
        /\ get_metadata(meta, last.key).row_count = Len(last.written)
        /\ (last.written = ThreeDays /\ config.partition_granularity = "day"
               /\ ~last.existed)
              => /\ get_metadata(meta, last.key).row_count = 4
                 /\ Cardinality(DOMAIN files) = 3
                 /\ Len(get_metadata(meta, last.key).partitions) = 3

\* the three days of bars written to an absent key at day granularity
C28_Witness ==
    /\ last.op = "write"
    /\ last.data = ThreeDays
    /\ ~last.existed
    /\ config.partition_granularity = "day"
    /\ get_metadata(meta, last.key).row_count = 4

(* C29: after write(df, key) with metadata tracking enabled,
   get_metadata(key)["schema"] is the list of the column names of the data
   as passed to write, without the partition columns year, month, day,
   hour. *)
C29_SchemaOfData ==
    last.op = "write" => get_metadata(meta, last.key).schema = Columns

\* the latest of a set of timestamps, None for the empty set
LatestOf(S) == IF S = {} THEN None ELSE CHOOSE t \in S : \A u \in S : TsLeq(u, t)

(* C30: get_latest_timestamp(symbol, provider) returns the maximum timestamp
   of the rows stored under provider/symbol, and None when the key is absent
   or holds no rows; every update_combined_file makes it the later of what
   it was and the latest timestamp of the chunk, so that after a sequence of
   updates without a delete it is the latest timestamp of all chunks applied
   and never decreases. *)
C30_LatestTimestamp ==
    [][ /\ last'.op = "get_latest_timestamp"
            => /\ last'.ret = LatestOf(TimestampsOf(Stored(dirs, files, last'.key)))
               /\ UNCHANGED <<dirs, files, meta>>
        /\ last'.op = "update_combined_file"
            => LatestOf(TimestampsOf(Stored(dirs', files', last'.key)))
                 = LatestOf(TimestampsOf(Stored(dirs, files, last'.key))
                              \cup TimestampsOf(BagOf(last'.data))) ]_vars

\* get_latest_timestamp gave the later of the two timestamps stored
C30_Witness ==
    /\ last.op = "get_latest_timestamp"
    /\ last.ret = DT(2024, 2, 1, 0, 0)
    /\ Cardinality(TimestampsOf(Stored(dirs, files, last.key))) = 2

\* C31: a StorageConfig with strategy "hive" and no partition_cols given gets
\* partition_cols from partition_granularity: year -> [year], month -> [year, month],
\* day -> [year, month, day], hour -> [year, month, day, hour], any other value ->
\* [year, month]; a list that was given is kept as it is and no other field changes;
\* deriving again changes nothing; and HiveStorage._get_partition_columns returns
\* the list the config derives for the same granularity.
C31_PartitionColsDerived ==
    LET expected(g) ==
            IF g = "year" THEN <<"year">>
            ELSE IF g = "day" THEN <<"year", "month", "day">>
            ELSE IF g = "hour" THEN <<"year", "month", "day", "hour">>
            ELSE <<"year", "month">>
    IN  /\ (last.op = "__post_init__" /\ last.data.strategy = "hive") =>
            /\ last.data.partition_cols = None =>
                  /\ config.partition_cols = List(expected(last.data.partition_granularity))
                  /\ config.partition_cols
                        = List(_get_partition_columns(config.partition_granularity))
            /\ last.data.partition_cols # None =>
                  config.partition_cols = last.data.partition_cols
            /\ [config EXCEPT !.partition_cols = last.data.partition_cols] = last.data
            /\ __post_init__(config) = config
            /\ last.existed => config = last.data
        /\ last.op = "_get_partition_columns" =>
            /\ last.ret = List(expected(config.partition_granularity))
            /\ last.ret = List(_get_partition_cols_from_granularity(
                                   config.partition_granularity))

\* a config with an unknown granularity and no partition_cols has been constructed
C31_Witness ==
    /\ last.op = "__post_init__"
    /\ last.data.strategy = "hive"
    /\ last.data.partition_granularity = "week"
    /\ last.data.partition_cols = None
    /\ config.partition_cols = List(<<"year", "month">>)

\* C32: generate_profile on a table without rows returns a profile (it does not
\* raise) with total_rows 0 and, for each column, total_count 0, null_count 0 and
\* min, max, mean and std None; summary() of that profile does not divide by zero;
\* and after any generate_profile call the table has the rows and columns it had.
C32_ZeroRowProfile ==
    /\ (last.op = "generate_profile" /\ last.data.rows = <<>>) =>
          /\ "raised" \notin DOMAIN last.ret
          /\ last.ret.total_rows = 0
          /\ Len(last.ret.columns) = Len(last.data.columns)
          /\ \A j \in DOMAIN last.ret.columns :
                LET col == last.ret.columns[j]
                IN  /\ col.name = last.data.columns[j]
                    /\ col.total_count = 0
                    /\ col.null_count = 0
                    /\ col.min = None /\ col.max = None
                    /\ col.mean = None /\ col.std = None
          /\ "raised" \notin DOMAIN summary(last.ret)
    /\ (last.op = "summary" /\ last.data.total_rows = 0) =>
          "raised" \notin DOMAIN last.ret
    /\ last.op = "generate_profile" => last.written = last.data

\* a table with columns and no rows has been profiled
C32_Witness ==
    /\ last.op = "generate_profile"
    /\ last.data.rows = <<>>
    /\ Len(last.data.columns) = 3
    /\ last.ret.total_columns = 3

C34_PruningConservative ==
    (last.op = "read" /\ last.existed) =>
        LET cols == _get_partition_columns(config.partition_granularity)
            s == last.start_date
            e == last.end_date
            kept == { p \in Glob(files, Fold(last.key), cols) :
                        _partition_in_range(_extract_partition_values(p[2], cols), s, e) }
            InPartition(p, t) == \A j \in DOMAIN cols : t[cols[j]] = p[2][j].val
            InRange(t) == /\ s # None => TsLeq(s, t)
                          /\ e # None => TsLess(t, e)
            Before(p, b) == \E k \in DOMAIN cols :
                               /\ \A j \in 1..(k - 1) : p[2][j].val = b[cols[j]]
                               /\ p[2][k].val < b[cols[k]]
            After(p, b) == \E k \in DOMAIN cols :
                              /\ \A j \in 1..(k - 1) : p[2][j].val = b[cols[j]]
                              /\ p[2][k].val > b[cols[k]]
        IN  \A p \in Glob(files, Fold(last.key), cols) :
                /\ (\E t \in PruneTimestamps : InPartition(p, t) /\ InRange(t)) => p \in kept
                /\ p \notin kept => \/ s # None /\ Before(p, s)
                                    \/ e # None /\ After(p, e)

\* a read at hour granularity with a start on the first instant of a month and no
\* end, over sixteen partitions of which the hour level alone prunes none and the
\* coarser levels prune twelve
C34_Witness ==
    /\ last.op = "read"
    /\ last.existed
    /\ config.partition_granularity = "hour"
    /\ last.start_date = DT(2024, 2, 1, 0, 0)
    /\ last.end_date = None
    /\ Cardinality(Glob(files, Fold(last.key), _get_partition_columns("hour"))) = 16
    /\ Cardinality(_find_partition_paths(files, Fold(last.key),
                                         _get_partition_columns("hour"),
                                         last.start_date, last.end_date)) = 4

\* C35: for every projection and all bounds, read(key, start, end, columns) of a
\* stored key raises nothing and gives the stored rows with start <= timestamp <
\* end, each restricted to the columns asked for, also when the projection leaves
\* the timestamp column out.
C35_ProjectedRead ==
    (last.op = "read" /\ last.existed) =>
        LET all == AllStored(files, last.key)
            inRange == { i \in DOMAIN all :
                           /\ last.start_date # None
                                => TsLeq(last.start_date, all[i].timestamp)
                           /\ last.end_date # None
                                => TsLess(all[i].timestamp, last.end_date) }
            rows == Pick(all, inRange, 1)
        IN  /\ last.error = "none"
            /\ BagOf(last.data) = BagOf(IF last.columns = <<>> THEN rows
                                        ELSE Select(rows, last.columns))

\* C36: write(df, key) on a key that holds data files puts, for every time bucket
\* that occurs in df, exactly df's rows of that bucket (in df's order, without the
\* rows the file held before) into the bucket's data file, and leaves every other
\* data file of the key, and of every other key, as it was.
C36_WriteReplacesItsPartitions ==
    [][ (/\ last'.op = "write"
         /\ \E p \in DOMAIN files : p[1] = Fold(last'.key)) =>
            LET df == last'.data
                buckets == { BucketOf(last'.key, df[i].timestamp) : i \in DOMAIN df }
            IN  /\ DOMAIN files' = DOMAIN files \cup buckets
                /\ \A p \in DOMAIN files' :
                      IF p \in buckets
                      THEN files'[p] = Pick(df, { i \in DOMAIN df :
                                                    BucketOf(last'.key, df[i].timestamp) = p }, 1)
                      ELSE files'[p] = files[p]
      ]_vars

\* at day granularity, after the bars of three days a write of one bar of the
\* first day: the file of the first day holds that bar alone, the files of the
\* other two days are those of the first write
C36_Witness ==
    /\ last.op = "write"
    /\ last.existed
    /\ config.partition_granularity = "day"
    /\ last.data = <<Row(DT(2024, 1, 1, 0, 0), 2)>>
    /\ files[BucketOf(last.key, DT(2024, 1, 1, 0, 0))] = last.data
    /\ BucketOf(last.key, DT(2024, 1, 2, 0, 0)) \in DOMAIN files
    /\ BucketOf(last.key, DT(2024, 1, 3, 0, 0)) \in DOMAIN files

\* C37: after any sequence of writes, those that fail between making the
\* temporary file and the rename included, every partition directory that holds
\* a file holds data.parquet and nothing else: no temporary file is left in it.
C37_OneFilePerPartition ==
    \A target \in DOMAIN files \cup { tmps[n].target : n \in DOMAIN tmps } :
        /\ target \in DOMAIN files
        /\ \A n \in DOMAIN tmps : tmps[n].target # target

\* C38: in every interleaving of delete(key) with read_data, get_metadata or
\* get_latest_timestamp on the same key, the accessor raises nothing and returns
\* what it returns for the stored key (all rows written, the metadata document,
\* the latest timestamp) or what it returns for an absent key (no rows, None).
C38_SoftAccessorsNeverRaise ==
    \A p \in Readers :
        /\ procs[p].pc # "raised"
        /\ (procs[p].pc = "done" /\ last.op = "write") =>
              CASE procs[p].op = "read" ->
                     LET rows == Concat([i \in DOMAIN procs[p].ret |-> procs[p].ret[i].rows])
                     IN  rows = <<>> \/ BagOf(rows) = BagOf(last.data)
                [] procs[p].op = "read_data" -> procs[p].ret = <<>>
                [] procs[p].op = "get_latest_timestamp" ->
                     procs[p].ret \in {None, MaxTimestamp(last.data)}
                [] OTHER -> procs[p].ret = None \/ procs[p].ret.row_count = Len(last.data)

\* C39: a lock is held or waited for only by a write or update_metadata call
\* that is at its metadata update (never by read, get_metadata, delete or the
\* partition-file writes of write), only the metadata steps change the locks, and
\* a caller at its metadata update is kept waiting only by a caller whose key is
\* the same key.
C39_LockScopedToKey ==
    LET AtMetadata(p) ==
            /\ CallOf(p).op \in {"write", "update_metadata"}
            /\ CallOf(p).pc \in {"m_lock", "m_temp", "m_dump", "m_rename", "m_close",
                                 "m_unlock"}
    IN  /\ \A p \in Procs :
              (procs[p].pc = "m_lock" \/ \E dir \in DOMAIN locks : locks[dir] = p)
                  => AtMetadata(p)
        /\ \A p \in Procs :
              (procs[p].pc = "m_lock" /\ Fold(procs[p].key) \in DOMAIN locks)
                  => CallOf(locks[Fold(procs[p].key)]).key = procs[p].key

\* C40: download_all classifies every configured product exactly once.  In
\* the summary it returns, downloaded + skipped + failed is the number of
\* configured products, messages holds one entry per product in the order of
\* the configuration, and total_rows is the sum of the rows of the products
\* that were downloaded and stored, which downloaded counts.  While it runs,
\* the products before the current one each have their entry whatever their
\* outcome was (a client error, retries given up, a failed save), the request
\* for a product has been tried at most 3 times, and the run ends only after
\* the last product.
DownloadedRows(messages) ==
    SumOf([k \in DOMAIN messages |->
              IF messages[k].words = "Downloaded" THEN messages[k].rows ELSE 0])

Tallied(results, n) ==
    /\ results.downloaded + results.skipped + results.failed = n
    /\ Len(results.messages) = n
    /\ \A k \in 1..n : results.messages[k].product = ProductAt(k)
    /\ results.total_rows = DownloadedRows(results.messages)
    /\ results.downloaded =
          Cardinality({ k \in 1..n : results.messages[k].words = "Downloaded" })

C40_EveryProductClassifiedOnce ==
    /\ last.op = "download_all" => Tallied(last.ret, Len(config.products))
    /\ Run.pc \in {"product", "download", "save", "classify"} =>
          /\ Run.i \in 1..Len(config.products)
          /\ Tallied(Run.results, Run.i - 1)
    /\ Run.pc = "return" => Tallied(Run.results, Len(config.products))
    /\ Run.attempt <= 3
    /\ Run.pc = "download" => Run.attempt < 3

\* a run has returned in which the first product failed after the retries
\* were given up and the second was downloaded with two rows
C40_Witness ==
    /\ last.op = "download_all"
    /\ Len(last.ret.messages) = 2
    /\ last.ret.messages[1].text = "RetryError"
    /\ last.ret.messages[2].words = "Downloaded"
    /\ last.ret.failed = 1
    /\ last.ret.downloaded = 1
    /\ last.ret.total_rows = 2

====
